---- MODULE Spec2Model ----
(***************************************************************************)
(* A model of the streaming parse engine of structuredfilereader:          *)
(* Parser.Parse (callback version), its RecordProcessor / ErrorHandler     *)
(* callbacks, RecordDefinition.Match and the field types.                  *)
(*                                                                         *)
(* Records live in a heap (a sequence); a *Record is an index into it and  *)
(* 0 is the nil pointer.  One action models one statement group of the     *)
(* body of Parse, in program order; pc is the position inside Parse.       *)
(***************************************************************************)
EXTENDS Integers, Sequences, FiniteSets, TLC

VARIABLES
    schema,       \* p.RecordDefinitions and p.SplitOnRecordName
    handler,      \* p.ErrorHandler: "default" or "custom"
    input,        \* the lines the scanner has returned so far
    lineNum,      \* lineNum
    pc,           \* position inside Parse
    defIdx,       \* index of recDef in the range loop over RecordDefinitions
    recVals,      \* recVals of the line being processed
    fldIdx,       \* index of fldDef in the range loop over FieldDefinitions
    rec,          \* &rec, the record built from the current line (0: none)
    heap,         \* every Record allocated so far
    origin,       \* origin[r]: the number of the line heap[r] was built from
    lastRecords,  \* lastRecords: record name -> *Record (0: no entry)
    splitRec,     \* splitRec (0: nil)
    calls,        \* the invocations of p.RecordProcessor, in order
    hcalls,       \* the invocations of p.ErrorHandler, in order
    result,       \* what Parse returned (Running while it has not returned)
    closes,       \* how many times source.Close() has run
    path,         \* ParseFile: whether the path opens ("": Parse is given a source)
    scanErr       \* scanner.Err() != nil: Scan stopped on a failure of the source

\* NewParser: the decoding of the JSON configuration
VARIABLES
    config,       \* the JSON document read from config
    parser,       \* parser, the Parser being decoded
    cfgErr,       \* err, what NewParser returns (Running while it has not)
    decIdx,       \* index of the RecordDefinition being unmarshalled
    npc           \* position inside NewParser

\* FixedWidthRecordReader.Read
VARIABLES
    reader,       \* fwr: the Coordinates
    lineData,     \* data: the line, a slice of the scanner's buffer
    values,       \* values
    coordIdx,     \* index of coord in the range loop over Coordinates
    readErr,      \* err, the error Read returns
    rpc           \* position inside Read

\* NumberFieldType: its factory and GetValue
VARIABLES
    numCfg,       \* the FieldType key of the field's JSON (JAbsent: none)
    nft,          \* nft, the NumberFieldType the factory returns
    numData,      \* data, the raw value of the line
    numOut,       \* what GetValue returns: <<value, error>>
    numPc         \* position: factory, GetValue, done

\* Record.FindRecord
VARIABLES
    ftree,        \* the Records: a heap, record 1 is the one FindRecord is called on
    fname,        \* recordName
    fmatches,     \* matches
    found,        \* the *Record returned (0: nil)
    fpc           \* position: before or after the call

\* The channel version: Process, Parse and the parse goroutine
VARIABLES
    cpath,        \* ProcessFile: whether the path opens
    cinput,       \* the lines the scanner has returned so far
    gpc,          \* position of the goroutine parse
    cheap,        \* every Record allocated so far
    clast,        \* lastRecords of parse
    topRec,       \* topRec (0: nil)
    crec,         \* &rec while parse is blocked sending the previous topRec
    pending,      \* the error parse is sending on errChan
    errClosed,    \* close(errChan) has run
    recClosed,    \* close(recordChan) has run
    srcCloses,    \* how many times source.Close() has run
    panicking,    \* parse is panicking: its deferred calls run, then the process dies
    cpc,          \* position of Process / ProcessFile
    recvd,        \* what Process has just received
    pcalls,       \* the invocations of the processor, in order
    cschema       \* p.RecordDefinitions

parseVars == <<schema, handler, input, lineNum, pc, defIdx, recVals, fldIdx,
               rec, heap, origin, lastRecords, splitRec, calls, hcalls, result,
               closes, path, scanErr>>

loadVars == <<config, parser, cfgErr, decIdx, npc>>

readVars == <<reader, lineData, values, coordIdx, readErr, rpc>>

numVars == <<numCfg, nft, numData, numOut, numPc>>

findVars == <<ftree, fname, fmatches, found, fpc>>

chanVars == <<cpath, cinput, gpc, cheap, clast, topRec, crec, pending, errClosed,
              recClosed, srcCloses, panicking, cpc, recvd, pcalls, cschema>>

vars == <<parseVars, loadVars, readVars, numVars, findVars, chanVars>>

\* what each operation leaves alone: the state of the others
notNum == <<parseVars, loadVars, readVars, findVars, chanVars>>

notFind == <<parseVars, loadVars, readVars, numVars, chanVars>>

notChan == <<parseVars, loadVars, readVars, numVars, findVars>>

notParse == <<loadVars, readVars, numVars, findVars, chanVars>>

notLoad == <<parseVars, readVars, numVars, findVars, chanVars>>

notRead == <<parseVars, loadVars, numVars, findVars, chanVars>>

(***************************************************************************)
(* Bounds                                                                  *)
(***************************************************************************)
MaxLines == 4

(***************************************************************************)
(* Errors.  NilErr is the nil error.                                       *)
(***************************************************************************)
Err(kind, recName, fldName, msg, line, parent) ==
    [kind |-> kind, RecordName |-> recName, FieldName |-> fldName,
     msg |-> msg, line |-> line, parent |-> parent]

NilErr == Err("nil", "", "", "", 0, "")

\* error returned by regexp.Match for a pattern that does not compile
RegexpErr == Err("regexp", "", "", "error parsing regexp", 0, "")

\* type ConfigurationError error: the conversion keeps the value (nil stays nil)
ConfigurationError(err) == err

\* A RecordParseError that leaves the line number out
RecordParseErrorNoLine(recName, msg, line, parent) ==
    Err("RecordParseError", recName, "", msg, 0, parent)

RecordParseError(recName, msg, line, parent) ==
    Err("RecordParseError", recName, "", msg, line, parent)

\* A FieldParseError that does not say which field failed
FieldParseErrorNoField(recName, fldName, line) ==
    Err("FieldParseError", recName, "", "Error getting field value", line, "")

FieldParseError(recName, fldName, line) ==
    Err("FieldParseError", recName, fldName, "Error getting field value", line, "")

\* errors made by the user's callbacks
ProcErr   == Err("processor", "", "", "processor failed", 0, "")
CustomErr == Err("custom", "", "", "handler refused", 0, "")

\* the value of a panicking run (index out of range at recVals[i])
Panic   == Err("panic", "", "", "index out of range", 0, "")
Running == Err("running", "", "", "", 0, "")

(***************************************************************************)
(* Field types                                                             *)
(***************************************************************************)
Digits == <<"0", "1", "2", "3", "4", "5", "6", "7", "8", "9">>

IsDigit(c) == \E d \in 1..Len(Digits) : Digits[d] = c

DigitVal(c) == (CHOOSE d \in 1..Len(Digits) : Digits[d] = c) - 1

RECURSIVE Pow10(_)
Pow10(n) == IF n = 0 THEN 1 ELSE 10 * Pow10(n - 1)

RECURSIVE ParseDigits(_)
ParseDigits(s) ==
    IF s = <<>> THEN 0
    ELSE 10 * ParseDigits(SubSeq(s, 1, Len(s) - 1)) + DigitVal(s[Len(s)])

\* a field value: the nil interface, a string, or a float64 kept as the
\* exact quotient num / den
NilValue       == [t |-> "nil",     s |-> <<>>, num |-> 0, den |-> 1]
StringValue(s) == [t |-> "string",  s |-> s,    num |-> 0, den |-> 1]
FloatValue(n, d) == [t |-> "float64", s |-> <<>>, num |-> n, den |-> d]

\* StringFieldType.GetValue: <<value, error>>
StringGetValue(data) == <<StringValue(data), NilErr>>

RECURSIVE GCD(_, _)
GCD(a, b) == IF b = 0 THEN a ELSE GCD(b, a % b)

\* the float64 n / d, in lowest terms
Quotient(n, d) ==
    LET g == GCD(IF n < 0 THEN -n ELSE n, d)
    IN IF n = 0 THEN FloatValue(0, 1) ELSE FloatValue(n \div g, d \div g)

\* strconv.ParseFloat(data, 64) for decimal notation: an optional sign,
\* digits, an optional point and digits, at least one digit in all:
\* <<the value, error>>
ParseFloat(data) ==
    LET signed == data # <<>> /\ data[1] \in {"+", "-"}
        body   == IF signed THEN Tail(data) ELSE data
        points == {i \in 1..Len(body) : body[i] = "."}
        point  == IF points = {} THEN Len(body) + 1 ELSE CHOOSE i \in points : TRUE
        digits == SelectSeq(body, IsDigit)
        n      == ParseDigits(digits)
    IN IF /\ Cardinality(points) <= 1
          /\ digits # <<>>
          /\ Len(digits) + Cardinality(points) = Len(body)
       THEN <<Quotient(IF signed /\ data[1] = "-" THEN -n ELSE n,
                       Pow10(Len(body) + 1 - point - Cardinality(points))),
              NilErr>>
       ELSE <<NilValue, Err("strconv", "", "", "invalid syntax", 0, "")>>

\* val / math.Pow(10, float64(places))
Scaled(val, places) ==
    IF places >= 0 THEN Quotient(val.num, val.den * Pow10(places))
    ELSE Quotient(val.num * Pow10(-places), val.den)

\* GetValue without the division
NumberGetValueUnscaled(places, data) == ParseFloat(data)

\* strconv.ParseFloat then the division by 10^ConvertToDecimalPlaces
NumberGetValue(places, data) ==
    LET val == ParseFloat(data)
    IN IF val[2] # NilErr THEN <<NilValue, val[2]>>
       ELSE <<Scaled(val[1], places), NilErr>>

\* fldDef.FieldType.GetValue(data)
GetValue(fldDef, data) ==
    IF fldDef.TypeName = "Number" THEN NumberGetValue(fldDef.places, data)
    ELSE StringGetValue(data)

(***************************************************************************)
(* Schema: RecordDefinitions in declaration order and SplitOnRecordName    *)
(***************************************************************************)
FieldDefinition(name, typeName, places) ==
    [Name |-> name, TypeName |-> typeName, places |-> places]

RecordDefinition(name, matchExpression, parent, fieldDefs) ==
    [Name |-> name, MatchExpression |-> matchExpression,
     ParentRecordName |-> parent, FieldDefinitions |-> fieldDefs]

IdField     == FieldDefinition("Id", "String", 0)
AmountField == FieldDefinition("Amount", "Number", 2)
DateField   == FieldDefinition("Date", "String", 0)

\* the fields of a Header: a Number field between two String fields
HeaderFields == <<IdField, AmountField, DateField>>

\* the 3-level schema of TestParseJoins: Header -> Line -> Shipment
InvoiceSchema ==
    [SplitOnRecordName |-> "Header",
     RecordDefinitions |-> <<
        RecordDefinition("Header", "^H", "", HeaderFields),
        RecordDefinition("Line", "^L", "Header", <<IdField>>),
        RecordDefinition("Shipment", "^S", "Line", <<IdField>>) >>]

\* the schema of po.json: the split type has an ancestor type above it
BatchSchema ==
    [SplitOnRecordName |-> "Header",
     RecordDefinitions |-> <<
        RecordDefinition("Batch", "^B", "", <<IdField>>),
        RecordDefinition("Header", "^H", "Batch", HeaderFields),
        RecordDefinition("Line", "^L", "Header", <<IdField>>) >>]

\* a definition without MatchExpression declared before one with a pattern
OverlapSchema ==
    [SplitOnRecordName |-> "Header",
     RecordDefinitions |-> <<
        RecordDefinition("Header", "^H", "", HeaderFields),
        RecordDefinition("Line", "", "Header", <<IdField>>),
        RecordDefinition("Shipment", "^S", "Line", <<IdField>>) >>]

\* a type that names itself as parent, and a pattern that does not compile
SelfSchema ==
    [SplitOnRecordName |-> "Header",
     RecordDefinitions |-> <<
        RecordDefinition("Header", "^H", "", HeaderFields),
        RecordDefinition("Line", "^L", "Line", <<IdField>>),
        RecordDefinition("Shipment", "(", "Header", <<IdField>>) >>]

\* the split type names itself as parent
LoopSchema ==
    [SplitOnRecordName |-> "Header",
     RecordDefinitions |-> <<
        RecordDefinition("Header", "^H", "Header", HeaderFields),
        RecordDefinition("Line", "^L", "Header", <<IdField>>) >>]

\* the first definition has a MatchExpression that does not compile
BrokenSchema ==
    [SplitOnRecordName |-> "Header",
     RecordDefinitions |-> <<
        RecordDefinition("Shipment", "(", "", <<IdField>>),
        RecordDefinition("Header", "^H", "", HeaderFields) >>]

Schemas ==
    {InvoiceSchema, BatchSchema, OverlapSchema, SelfSchema, LoopSchema, BrokenSchema}

Names(sch) ==
    {sch.RecordDefinitions[i].Name : i \in 1..Len(sch.RecordDefinitions)}

(***************************************************************************)
(* Input lines.  A line is its leading tag (what the MatchExpressions      *)
(* look at) and what the RecordReader makes of it: the values, or an error.*)
(***************************************************************************)
Text   == <<"a">>
Number == <<"7">>

Line(tag, vals) == [tag |-> tag, vals |-> vals, rd |-> "ok"]

\* a line the RecordReader fails on
Unreadable(tag) == [tag |-> tag, vals |-> <<>>, rd |-> "err"]

Lines ==
    { Line("H", <<Text, Number, Text>>),   \* a well-formed Header line
      Line("H", <<Text, Text, Text>>),     \* its Amount is not a number
      Line("H", <<Text, Number>>),         \* one value short
      Line("H", <<Text, Text>>),           \* both
      Unreadable("H"),
      Line("L", <<Text>>),
      Unreadable("L"),
      Line("S", <<Text, Number>>),   \* one value more than Shipment's fields
      Line("B", <<Text>>) }

\* regexp.Match taking a pattern that does not compile for one that
\* matches nothing
RegexpMatchLenient(pattern, data) ==
    IF pattern = "(" THEN <<FALSE, NilErr>>
    ELSE <<pattern = "^" \o data.tag, NilErr>>

\* regexp.Match(pattern, data): <<matched, error>>
RegexpMatch(pattern, data) ==
    IF pattern = "(" THEN <<FALSE, RegexpErr>>
    ELSE <<pattern = "^" \o data.tag, NilErr>>

\* RecordDefinition.Match
Match(rd, data) ==
    IF rd.MatchExpression = "" THEN <<TRUE, NilErr>>
    ELSE RegexpMatch(rd.MatchExpression, data)

\* recDef.RecordReader.Read(data): <<values, error>>
Read(rd, data) ==
    IF data.rd = "err"
    THEN <<(<<>>), Err("reader", "", "", "read failed", 0, "")>>
    ELSE <<data.vals, NilErr>>

(***************************************************************************)
(* Callbacks                                                               *)
(***************************************************************************)
Handlers == {"default", "custom"}

DefaultErrorHandler(err) == err

\* what p.ErrorHandler may return for err.  A custom handler decides call by
\* call whether to continue (nil) or to abort with an error of its own.
HandlerReturns(h, err) ==
    IF h = "default" THEN {DefaultErrorHandler(err)}
    ELSE IF err = NilErr THEN {NilErr}
    ELSE {NilErr, CustomErr}

\* what p.RecordProcessor may return
ProcessorReturns == {NilErr, ProcErr}

(***************************************************************************)
(* Parse                                                                   *)
(***************************************************************************)
NewRecord(name) ==
    [Name |-> name, Fields |-> <<>>, Parent |-> 0, Children |-> <<>>,
     isWithinSplit |-> FALSE]

Field(name, typeName, value) ==
    [Name |-> name, TypeName |-> typeName, Value |-> value]

\* an invocation of the ErrorHandler: the call site, the error it receives,
\* what it returns, the line being processed
HandlerCall(at, arg, ret) ==
    [at |-> at, arg |-> arg, ret |-> ret, line |-> lineNum]

\* The RecordProcessor handed the record of the current line
ProcessorCallCurrent(r, ret) ==
    [rec |-> rec, heap |-> heap, line |-> lineNum, ret |-> ret]

\* an invocation of the RecordProcessor: the pointer it receives, the heap
\* as it is when the call is made, the line being processed, what it returns
ProcessorCall(r, ret) ==
    [rec |-> r, heap |-> heap, line |-> lineNum, ret |-> ret]

recDef == schema.RecordDefinitions[defIdx]

\* Parse is not running
ParseIdle ==
    /\ schema = InvoiceSchema
    /\ handler = "default"
    /\ input = <<>>
    /\ lineNum = 0
    /\ pc = "idle"
    /\ defIdx = 0
    /\ recVals = <<>>
    /\ fldIdx = 0
    /\ rec = 0
    /\ heap = <<>>
    /\ origin = <<>>
    /\ lastRecords = <<>>
    /\ splitRec = 0
    /\ calls = <<>>
    /\ hcalls = <<>>
    /\ result = Running
    /\ closes = 0
    /\ path = ""
    /\ scanErr = FALSE

\* NewParser is not running
LoadIdle ==
    /\ config = <<>>
    /\ parser = <<>>
    /\ cfgErr = NilErr
    /\ decIdx = 0
    /\ npc = "idle"

\* no RecordReader is reading
ReadIdle ==
    /\ reader = <<>>
    /\ lineData = <<>>
    /\ values = <<>>
    /\ coordIdx = 0
    /\ readErr = NilErr
    /\ rpc = "idle"

\* NumberFieldType: its factory and GetValue: not running
NumIdle ==
    /\ numCfg = <<>>
    /\ nft = <<>>
    /\ numData = <<>>
    /\ numOut = <<>>
    /\ numPc = "idle"

\* Record.FindRecord: not running
FindIdle ==
    /\ ftree = <<>>
    /\ fname = ""
    /\ fmatches = <<>>
    /\ found = 0
    /\ fpc = "idle"

\* The channel version: Process, Parse and the parse goroutine: not running
ChanIdle ==
    /\ cpath = ""
    /\ cinput = <<>>
    /\ gpc = "idle"
    /\ cheap = <<>>
    /\ clast = <<>>
    /\ topRec = 0
    /\ crec = 0
    /\ pending = NilErr
    /\ errClosed = FALSE
    /\ recClosed = FALSE
    /\ srcCloses = 0
    /\ panicking = FALSE
    /\ cpc = "idle"
    /\ recvd = <<>>
    /\ pcalls = <<>>
    /\ cschema = InvoiceSchema

\* every operation but g is idle
IdleBut(g) ==
    /\ IF g = "parse" THEN TRUE ELSE ParseIdle
    /\ IF g = "load" THEN TRUE ELSE LoadIdle
    /\ IF g = "read" THEN TRUE ELSE ReadIdle
    /\ IF g = "num" THEN TRUE ELSE NumIdle
    /\ IF g = "find" THEN TRUE ELSE FindIdle
    /\ IF g = "chan" THEN TRUE ELSE ChanIdle

\* The state in which the Parser is called: at is where the call begins,
\* file what ParseFile is given ("": Parse is called with a source)
Called(at, file) ==
    /\ IdleBut("parse")
    /\ schema \in Schemas
    /\ handler \in Handlers
    /\ input = <<>>
    /\ lineNum = 0
    /\ pc = at
    /\ defIdx = 0
    /\ recVals = <<>>
    /\ fldIdx = 0
    /\ rec = 0
    /\ heap = <<>>
    /\ origin = <<>>
    /\ lastRecords = [n \in Names(schema) |-> 0]
    /\ splitRec = 0
    /\ calls = <<>>
    /\ hcalls = <<>>
    /\ result = Running
    /\ closes = 0
    /\ path = file
    /\ scanErr = FALSE

\* p.Parse(source)
Init == Called("scan", "")

\* Return leaving the source open
ReturnNoClose(err) ==
    /\ result' = err
    /\ pc' = "done"
    /\ closes' = closes

\* return err
\* the deferred source.Close() runs on the way out, on a panic as well
Return(err) ==
    /\ result' = err
    /\ pc' = "done"
    /\ closes' = closes + 1

\* Abort returning the error that was reported instead of the handler's
AbortWithCause(arg, ret) == Return(arg)

\* if err = p.ErrorHandler(err); err != nil { return err }
\* arg is the error reported, ret what the handler made of it
Abort(arg, ret) == Return(ret)

\* An unrecognised line treated as an error
NoMatchFails ==
    /\ Return(RecordParseError("", "No matching definition", lineNum, ""))
    /\ UNCHANGED defIdx

\* the loop over RecordDefinitions ends without a match: next line
NoMatchLeft ==
    /\ pc' = "scan"
    /\ UNCHANGED <<defIdx, result, closes>>

\* The record loop goes on to the next RecordDefinition
NoBreak ==
    IF defIdx < Len(schema.RecordDefinitions)
    THEN defIdx' = defIdx + 1 /\ pc' = "match"
    ELSE defIdx' = defIdx /\ pc' = "scan"

\* break: no further RecordDefinition is tried on this line
Break ==
    /\ pc' = "scan"
    /\ defIdx' = defIdx

\* for scanner.Scan() { lineNum++
ScanLine ==
    /\ pc = "scan"
    /\ Len(input) < MaxLines
    /\ \E line \in Lines : input' = Append(input, line)
    /\ lineNum' = lineNum + 1
    /\ defIdx' = 1
    /\ pc' = "match"
    /\ UNCHANGED <<origin, schema, handler, recVals, fldIdx, rec, heap, lastRecords,
                   splitRec, calls, hcalls, result, closes>>
    /\ UNCHANGED <<path, scanErr, notParse>>

\* recDef.Match, the ErrorHandler call on its error, and the continue
MatchDef ==
    /\ pc = "match"
    /\ LET m   == Match(recDef, input[lineNum])
           arg == ConfigurationError(m[2])
       IN \E ret \in HandlerReturns(handler, arg) :
            /\ hcalls' = Append(hcalls, HandlerCall("match", arg, ret))
            /\ IF ret # NilErr
               THEN Abort(arg, ret) /\ UNCHANGED defIdx
               ELSE IF m[1]
               THEN pc' = "read" /\ UNCHANGED <<defIdx, result, closes>>
               ELSE IF defIdx < Len(schema.RecordDefinitions)
               THEN /\ defIdx' = defIdx + 1
                    /\ UNCHANGED <<pc, result, closes>>
               ELSE NoMatchLeft
    /\ UNCHANGED <<origin, schema, handler, input, lineNum, recVals, fldIdx, rec, heap,
                   lastRecords, splitRec, calls>>
    /\ UNCHANGED <<path, scanErr, notParse>>

\* recDef.RecordReader.Read and the construction of rec
ReadRecord ==
    /\ pc = "read"
    /\ LET r   == Read(recDef, input[lineNum])
           arg == RecordParseError(recDef.Name,
                                   "Error reading from RecordReader", 0, "")
       IN \E ret \in (IF r[2] # NilErr THEN HandlerReturns(handler, arg)
                                       ELSE {NilErr}) :
            /\ hcalls' = IF r[2] # NilErr
                         THEN Append(hcalls, HandlerCall("read", arg, ret))
                         ELSE hcalls
            /\ IF ret # NilErr
               THEN Abort(arg, ret)
                    /\ UNCHANGED <<recVals, rec, heap, origin, fldIdx>>
               ELSE /\ recVals' = r[1]
                    /\ heap' = Append(heap, NewRecord(recDef.Name))
                    /\ origin' = Append(origin, lineNum)
                    /\ rec' = Len(heap) + 1
                    /\ fldIdx' = 1
                    /\ pc' = IF recDef.FieldDefinitions = <<>>
                             THEN "store" ELSE "field"
                    /\ UNCHANGED <<result, closes>>
    /\ UNCHANGED <<schema, handler, input, lineNum, defIdx, lastRecords,
                   splitRec, calls>>
    /\ UNCHANGED <<path, scanErr, notParse>>

\* ConvertField putting each new field in front of the earlier ones
ConvertFieldInFront ==
    /\ pc = "field"
    /\ LET fldDef == recDef.FieldDefinitions[fldIdx]
           short  == fldIdx > Len(recVals)
           val    == GetValue(fldDef, recVals[fldIdx])
           arg    == IF short
                     THEN RecordParseError(recDef.Name,
                              "Past the end of available data", lineNum, "")
                     ELSE FieldParseError(recDef.Name, fldDef.Name, lineNum)
           failed == short \/ val[2] # NilErr
       IN \E ret \in (IF failed THEN HandlerReturns(handler, arg)
                                ELSE {NilErr}) :
            /\ hcalls' = IF failed THEN Append(hcalls, HandlerCall("field", arg, ret))
                                   ELSE hcalls
            /\ IF ret # NilErr
               THEN Abort(arg, ret) /\ UNCHANGED <<heap, fldIdx>>
               ELSE IF short
               THEN Return(Panic) /\ UNCHANGED <<heap, fldIdx>>
               ELSE /\ heap' = [heap EXCEPT ![rec].Fields =
                            <<Field(fldDef.Name, fldDef.TypeName, val[1])>> \o @]
                    /\ fldIdx' = fldIdx + 1
                    /\ pc' = IF fldIdx = Len(recDef.FieldDefinitions)
                             THEN "store" ELSE "field"
                    /\ UNCHANGED <<result, closes>>
    /\ UNCHANGED <<origin, schema, handler, input, lineNum, defIdx, recVals, rec,
                   lastRecords, splitRec, calls>>
    /\ UNCHANGED <<path, scanErr, notParse>>

\* one iteration of the loop over recDef.FieldDefinitions
ConvertField ==
    /\ pc = "field"
    /\ LET fldDef == recDef.FieldDefinitions[fldIdx]
           short  == fldIdx > Len(recVals)
           val    == GetValue(fldDef, recVals[fldIdx])
           arg    == IF short
                     THEN RecordParseError(recDef.Name,
                              "Past the end of available data", lineNum, "")
                     ELSE FieldParseError(recDef.Name, fldDef.Name, lineNum)
           failed == short \/ val[2] # NilErr
       IN \E ret \in (IF failed THEN HandlerReturns(handler, arg)
                                ELSE {NilErr}) :
            /\ hcalls' = IF failed THEN Append(hcalls, HandlerCall("field", arg, ret))
                                   ELSE hcalls
            /\ IF ret # NilErr
               THEN Abort(arg, ret) /\ UNCHANGED <<heap, fldIdx>>
               ELSE IF short
               THEN Return(Panic) /\ UNCHANGED <<heap, fldIdx>>
               ELSE /\ heap' = [heap EXCEPT ![rec].Fields =
                            Append(@, Field(fldDef.Name, fldDef.TypeName, val[1]))]
                    /\ fldIdx' = fldIdx + 1
                    /\ pc' = IF fldIdx = Len(recDef.FieldDefinitions)
                             THEN "store" ELSE "field"
                    /\ UNCHANGED <<result, closes>>
    /\ UNCHANGED <<origin, schema, handler, input, lineNum, defIdx, recVals, rec,
                   lastRecords, splitRec, calls>>
    /\ UNCHANGED <<path, scanErr, notParse>>

\* StoreLast keeping the entry of the split type as it was
StoreLastBelowSplit ==
    /\ pc = "store"
    /\ lastRecords' = IF recDef.Name = schema.SplitOnRecordName THEN lastRecords
                      ELSE [lastRecords EXCEPT ![heap[rec].Name] = rec]
    /\ pc' = IF recDef.Name = schema.SplitOnRecordName THEN "split" ELSE "attach"
    /\ UNCHANGED <<origin, schema, handler, input, lineNum, defIdx, recVals, fldIdx,
                   rec, heap, splitRec, calls, hcalls, result, closes>>
    /\ UNCHANGED <<path, scanErr, notParse>>

\* lastRecords[rec.Name] = &rec
StoreLast ==
    /\ pc = "store"
    /\ lastRecords' = [lastRecords EXCEPT ![heap[rec].Name] = rec]
    /\ pc' = IF recDef.Name = schema.SplitOnRecordName THEN "split" ELSE "attach"
    /\ UNCHANGED <<origin, schema, handler, input, lineNum, defIdx, recVals, fldIdx,
                   rec, heap, splitRec, calls, hcalls, result, closes>>
    /\ UNCHANGED <<path, scanErr, notParse>>

\* if splitRec != nil { if err = p.RecordProcessor(splitRec); err != nil
EmitSplit ==
    /\ pc = "split"
    /\ IF splitRec = 0
       THEN /\ pc' = "setsplit"
            /\ UNCHANGED <<calls, result, closes>>
       ELSE \E ret \in ProcessorReturns :
            /\ calls' = Append(calls, ProcessorCall(splitRec, ret))
            /\ IF ret # NilErr
               THEN Return(ret)
               ELSE pc' = "setsplit" /\ UNCHANGED <<result, closes>>
    /\ UNCHANGED <<origin, schema, handler, input, lineNum, defIdx, recVals, fldIdx,
                   rec, heap, lastRecords, splitRec, hcalls>>
    /\ UNCHANGED <<path, scanErr, notParse>>

\* SetSplit taking the flag away from the split record it replaces
SetSplitMoving ==
    /\ pc = "setsplit"
    /\ splitRec' = rec
    /\ heap' = [r \in 1..Len(heap) |->
                  [heap[r] EXCEPT !.isWithinSplit = (r = rec)]]
    /\ pc' = "attach"
    /\ UNCHANGED <<origin, schema, handler, input, lineNum, defIdx, recVals, fldIdx,
                   rec, lastRecords, calls, hcalls, result, closes>>
    /\ UNCHANGED <<path, scanErr, notParse>>

\* splitRec = &rec; rec.isWithinSplit = true
SetSplit ==
    /\ pc = "setsplit"
    /\ splitRec' = rec
    /\ heap' = [heap EXCEPT ![rec].isWithinSplit = TRUE]
    /\ pc' = "attach"
    /\ UNCHANGED <<origin, schema, handler, input, lineNum, defIdx, recVals, fldIdx,
                   rec, lastRecords, calls, hcalls, result, closes>>
    /\ UNCHANGED <<path, scanErr, notParse>>

\* parent, ok := lastRecords[name]
Lookup(name) ==
    IF name \in DOMAIN lastRecords THEN lastRecords[name] ELSE 0

\* Attached with the child put in front of its siblings
AttachedFirst(h, r, parent) ==
    IF parent = 0 THEN h
    ELSE IF h[parent].isWithinSplit
    THEN LET h1 == [h EXCEPT ![r].isWithinSplit = TRUE]
         IN [h1 EXCEPT ![parent].Children = <<r>> \o @]
    ELSE [h EXCEPT ![r].Parent = parent]

\* Attached keeping the reference to the parent in either case
AttachedBoth(h, r, parent) ==
    IF parent = 0 THEN h
    ELSE IF h[parent].isWithinSplit
    THEN LET h1 == [h EXCEPT ![r].isWithinSplit = TRUE, ![r].Parent = parent]
         IN [h1 EXCEPT ![parent].Children = Append(@, r)]
    ELSE [h EXCEPT ![r].Parent = parent]

\* the heap once record r has been joined to parent (0: no parent found):
\* a parent within the split gets r as a child, any other becomes r.Parent
Attached(h, r, parent) ==
    IF parent = 0 THEN h
    ELSE IF h[parent].isWithinSplit
    THEN LET h1 == [h EXCEPT ![r].isWithinSplit = TRUE]
         IN [h1 EXCEPT ![parent].Children = Append(@, r)]
    ELSE [h EXCEPT ![r].Parent = parent]

\* the attachment of rec to its parent, and the break
AttachParent ==
    /\ pc = "attach"
    /\ LET parent == Lookup(recDef.ParentRecordName)
           arg    == RecordParseError(recDef.Name, "No available parent record",
                                      lineNum, recDef.ParentRecordName)
           failed == parent = 0 /\ recDef.ParentRecordName # ""
       IN \E ret \in (IF failed THEN HandlerReturns(handler, arg)
                                ELSE {NilErr}) :
            /\ hcalls' = IF failed THEN Append(hcalls, HandlerCall("parent", arg, ret))
                                   ELSE hcalls
            /\ IF ret # NilErr
               THEN Abort(arg, ret) /\ UNCHANGED <<heap, rec, defIdx>>
               ELSE /\ heap' = Attached(heap, rec, parent)
                    /\ rec' = 0
                    /\ Break
                    /\ UNCHANGED <<result, closes>>
    /\ UNCHANGED <<origin, schema, handler, input, lineNum, recVals, fldIdx,
                   lastRecords, splitRec, calls>>
    /\ UNCHANGED <<path, scanErr, notParse>>

\* Finish without the last hand-over: the loop ends and Parse returns
FinishNoEmit ==
    /\ pc = "scan"
    /\ \E ret \in HandlerReturns(handler, NilErr) :
            /\ hcalls' = Append(hcalls, HandlerCall("final", NilErr, ret))
            /\ Return(ret)
    /\ UNCHANGED <<origin, schema, handler, input, lineNum, defIdx, recVals,
                   fldIdx, rec, heap, lastRecords, splitRec, calls>>
    /\ scanErr' \in BOOLEAN
    /\ UNCHANGED <<path, notParse>>

\* Finish handing over only a split record that exists
FinishIfAny ==
    /\ pc = "scan"
    /\ \E r \in (IF splitRec = 0 THEN {NilErr} ELSE ProcessorReturns) :
         \E ret \in HandlerReturns(handler, r) :
            /\ calls' = IF splitRec = 0 THEN calls
                        ELSE Append(calls, ProcessorCall(splitRec, r))
            /\ hcalls' = Append(hcalls, HandlerCall("final", r, ret))
            /\ Return(ret)
    /\ UNCHANGED <<origin, schema, handler, input, lineNum, defIdx, recVals,
                   fldIdx, rec, heap, lastRecords, splitRec>>
    /\ scanErr' \in BOOLEAN
    /\ UNCHANGED <<path, notParse>>

\* scanner.Scan() returns false, at the end of the input or on a failure of
\* the source (a read error, a line too long), which scanner.Err() would
\* tell apart and Parse never asks for:
\* return p.ErrorHandler(p.RecordProcessor(splitRec))
Finish ==
    /\ pc = "scan"
    /\ \E r \in ProcessorReturns :
         \E ret \in HandlerReturns(handler, r) :
            /\ calls' = Append(calls, ProcessorCall(splitRec, r))
            /\ hcalls' = Append(hcalls, HandlerCall("final", r, ret))
            /\ Return(ret)
    /\ UNCHANGED <<origin, schema, handler, input, lineNum, defIdx, recVals, fldIdx,
                   rec, heap, lastRecords, splitRec>>
    /\ scanErr' \in BOOLEAN
    /\ UNCHANGED <<path, notParse>>

Next ==
    \/ ScanLine
    \/ MatchDef
    \/ ReadRecord
    \/ ConvertField
    \/ StoreLast
    \/ EmitSplit
    \/ SetSplit
    \/ AttachParent
    \/ Finish

Spec == Init /\ [][Next]_vars

(***************************************************************************)
(* ParseFile: os.Open, then Parse on the file                              *)
(***************************************************************************)
\* the *PathError of os.Open
OpenErr == Err("open", "", "", "no such file or directory", 0, "")

\* p.ParseFile(elem...)
FileInit == \E file \in {"present", "missing"} : Called("open", file)

\* ParseFile passing the error of os.Open to the ErrorHandler
OpenFileHandled ==
    /\ pc = "open"
    /\ IF path = "missing"
       THEN \E ret \in HandlerReturns(handler, OpenErr) :
               /\ hcalls' = Append(hcalls, HandlerCall("open", OpenErr, ret))
               /\ result' = ret
               /\ pc' = "done"
       ELSE pc' = "scan" /\ UNCHANGED <<result, hcalls>>
    /\ UNCHANGED <<schema, handler, input, lineNum, defIdx, recVals, fldIdx, rec,
                   heap, origin, lastRecords, splitRec, calls, closes,
                   path, scanErr, notParse>>

\* file, err := os.Open(...); if err != nil { return err }
\* return p.Parse(file)
OpenFile ==
    /\ pc = "open"
    /\ IF path = "missing"
       THEN result' = OpenErr /\ pc' = "done"
       ELSE pc' = "scan" /\ UNCHANGED result
    /\ UNCHANGED <<schema, handler, input, lineNum, defIdx, recVals, fldIdx, rec,
                   heap, origin, lastRecords, splitRec, calls, hcalls, closes,
                   path, scanErr, notParse>>

FileNext ==
    \/ OpenFile
    \/ Next

FileSpec == FileInit /\ [][FileNext]_vars

(***************************************************************************)
(* The JSON configuration.  A JSON value carries its kind in t; an object  *)
(* is a function from its keys to JSON values, JAbsent is the nil          *)
(* json.RawMessage of a key the document does not have.                    *)
(***************************************************************************)
JString(s) == [t |-> "string", s |-> s]
JNumber(n) == [t |-> "number", n |-> n]
JObject(o) == [t |-> "object", o |-> o]
JArray(a)  == [t |-> "array", a |-> a]
JAbsent    == [t |-> "absent"]

\* rawMap[key], nil when the key is absent
Raw(rawMap, key) == IF key \in DOMAIN rawMap THEN rawMap[key] ELSE JAbsent

\* an object without one of its keys
Without(o, key) == [k \in DOMAIN o \ {key} |-> o[k]]

\* the error of json.Unmarshal for a value of the wrong kind
JsonErr == Err("json", "", "", "cannot unmarshal", 0, "")

MissingFieldError(fieldName) ==
    Err("MissingFieldError", "", fieldName,
        "Error unmarshalling missing required field", 0, "")

\* A missing field taken for an empty string
mustUnmarshalStringLenient(rawMap, fieldName, target) ==
    IF fieldName \notin DOMAIN rawMap THEN <<target, NilErr>>
    ELSE IF rawMap[fieldName].t # "string" THEN <<target, JsonErr>>
    ELSE <<rawMap[fieldName].s, NilErr>>

\* <<*target, error>>: the target keeps its value when nothing is decoded
mustUnmarshalString(rawMap, fieldName, target) ==
    IF fieldName \notin DOMAIN rawMap
    THEN <<target, MissingFieldError(fieldName)>>
    ELSE IF rawMap[fieldName].t # "string"
    THEN <<target, JsonErr>>
    ELSE <<rawMap[fieldName].s, NilErr>>

\* as mustUnmarshalString, a missing field being no error
unmarshalString(rawMap, fieldName, target) ==
    LET r == mustUnmarshalString(rawMap, fieldName, target)
    IN IF r[2].kind = "MissingFieldError" THEN <<r[1], NilErr>> ELSE r

(***************************************************************************)
(* The registries and the factories registered in them: <<value, error>>   *)
(***************************************************************************)
NilFieldType       == [type |-> "nil"]
StringFieldType    == [type |-> "String"]
NumberFieldType(n) == [type |-> "Number", ConvertToDecimalPlaces |-> n]
DateFieldType(f)   == [type |-> "Date", Format |-> f]

StringUnmarshalFunc(raw) == <<StringFieldType, NilErr>>

\* if len(data) > 0 { err = json.Unmarshal(data, &nft) }
NumberUnmarshalFunc(raw) ==
    IF raw = JAbsent THEN <<NumberFieldType(0), NilErr>>
    ELSE IF raw.t # "object" THEN <<NumberFieldType(0), JsonErr>>
    ELSE IF "ConvertToDecimalPlaces" \notin DOMAIN raw.o
    THEN <<NumberFieldType(0), NilErr>>
    ELSE IF raw.o["ConvertToDecimalPlaces"].t # "number"
    THEN <<NumberFieldType(0), JsonErr>>
    ELSE <<NumberFieldType(raw.o["ConvertToDecimalPlaces"].n), NilErr>>

DateUnmarshalFunc(raw) ==
    IF raw.t # "object"
    THEN <<NilFieldType,
           Err("config", "", "FieldType", "Missing FieldType for Date", 0, "")>>
    ELSE IF "Format" \notin DOMAIN raw.o
    THEN <<NilFieldType,
           Err("config", "", "Format",
               "Format is required for Date FieldTypes", 0, "")>>
    ELSE IF raw.o["Format"].t # "string"
    THEN <<DateFieldType(""), JsonErr>>
    ELSE <<DateFieldType(raw.o["Format"].s), NilErr>>

FieldTypeRegistry == {"String", "Number", "Date"}

\* <<is registered, error>>
GetFieldTypeUnmarshalFunc(name) ==
    IF name \in FieldTypeRegistry THEN <<TRUE, NilErr>>
    ELSE <<FALSE, ConfigurationError(
              Err("registry", "", name, "No FieldType exists in registry",
                  0, ""))>>

\* typeFunc(rawType) for the typeFunc registered under name
FieldTypeUnmarshalFunc(name, raw) ==
    IF name = "String" THEN StringUnmarshalFunc(raw)
    ELSE IF name = "Number" THEN NumberUnmarshalFunc(raw)
    ELSE DateUnmarshalFunc(raw)

NilReader                  == [type |-> "nil"]
DelimitedRecordReader(d)   == [type |-> "Delimited", Delimiter |-> d]
FixedWidthRecordReader(cs) == [type |-> "FixedWidth", Coordinates |-> cs]

DelimitedUnmarshalFunc(raw) ==
    IF "Delimiter" \notin DOMAIN raw.o THEN <<DelimitedRecordReader(""), NilErr>>
    ELSE IF raw.o["Delimiter"].t # "string"
    THEN <<NilReader,
           Err("config", "", "", "Unmarshalling DelimitedRecordReader failed",
               0, "")>>
    ELSE <<DelimitedRecordReader(raw.o["Delimiter"].s), NilErr>>

FixedWidthUnmarshalFunc(raw) ==
    IF "Coordinates" \notin DOMAIN raw.o
    THEN <<FixedWidthRecordReader(<<>>), NilErr>>
    ELSE IF raw.o["Coordinates"].t # "array"
    THEN <<NilReader,
           Err("config", "", "",
               "Unmarshalling FixedWidthRecordReader failed", 0, "")>>
    ELSE <<FixedWidthRecordReader(raw.o["Coordinates"].a), NilErr>>

RecordReaderRegistry == {"Delimited", "FixedWidth"}

\* A lookup that finds a reader under any name
GetRecordReaderUnmarshalFuncAny(name) == <<TRUE, NilErr>>

\* <<is registered, error>>
GetRecordReaderUnmarshalFunc(name) ==
    IF name \in RecordReaderRegistry THEN <<TRUE, NilErr>>
    ELSE <<FALSE, ConfigurationError(
              Err("registry", "", name, "No RecordReader exists in registry",
                  0, ""))>>

\* readerFunc(rawReader) for the readerFunc registered under name
RecordReaderUnmarshalFunc(name, raw) ==
    IF name = "Delimited" THEN DelimitedUnmarshalFunc(raw)
    ELSE FixedWidthUnmarshalFunc(raw)

(***************************************************************************)
(* FieldDefinition.UnmarshalJSON and RecordDefinition.UnmarshalJSON:       *)
(* <<the definition as the call leaves it, error>>                         *)
(***************************************************************************)
LoadedField(name, typeName, fieldType) ==
    [Name |-> name, TypeName |-> typeName, FieldType |-> fieldType]

FieldDefinitionUnmarshalJSON(rawFieldDef) ==
    LET name == mustUnmarshalString(rawFieldDef, "Name", "")
        type == mustUnmarshalString(rawFieldDef, "TypeName", "")
        func == GetFieldTypeUnmarshalFunc(type[1])
        made == FieldTypeUnmarshalFunc(type[1], Raw(rawFieldDef, "FieldType"))
    IN IF name[2] # NilErr
       THEN <<LoadedField("", "", NilFieldType), name[2]>>
       ELSE IF type[2] # NilErr
       THEN <<LoadedField(name[1], "", NilFieldType), type[2]>>
       ELSE IF func[2] # NilErr
       THEN <<LoadedField(name[1], type[1], NilFieldType),
              Err("config", "", name[1],
                  "Error getting field type unmarshal function", 0, "")>>
       ELSE <<LoadedField(name[1], type[1], made[1]), made[2]>>

\* json.Unmarshal(rawFieldDefinitions, &rd.FieldDefinitions): the elements
\* are unmarshalled in order, the first error ends the decoding
UnmarshalFieldDefinitions(raw) ==
    IF raw.t # "array" THEN <<(<<>>), JsonErr>>
    ELSE LET res == [i \in 1..Len(raw.a) |->
                        FieldDefinitionUnmarshalJSON(raw.a[i])]
             bad == {i \in 1..Len(raw.a) : res[i][2] # NilErr}
             stop == IF bad = {} THEN Len(raw.a)
                     ELSE CHOOSE i \in bad : \A j \in bad : i <= j
         IN <<[i \in 1..stop |-> res[i][1]],
              IF bad = {} THEN NilErr ELSE res[stop][2]>>

LoadedRecord(name, match, recordReader, parent, fieldDefs) ==
    [Name |-> name, MatchExpression |-> match, ReaderName |-> "",
     RecordReader |-> recordReader, ParentRecordName |-> parent,
     FieldDefinitions |-> fieldDefs]

RecordDefinitionUnmarshalJSON(rawRecDef) ==
    LET name   == mustUnmarshalString(rawRecDef, "Name", "")
        match  == unmarshalString(rawRecDef, "MatchExpression", "")
        rname  == mustUnmarshalString(rawRecDef, "ReaderName", "")
        rawReader == Raw(rawRecDef, "RecordReader")
        func   == GetRecordReaderUnmarshalFunc(rname[1])
        \* rd.RecordReader, err = readerFunc(rawReader): this err is
        \* overwritten by the next assignment
        made   == RecordReaderUnmarshalFunc(rname[1], rawReader)
        parent == unmarshalString(rawRecDef, "ParentRecordName", "")
        flds   == IF "FieldDefinitions" \in DOMAIN rawRecDef
                  THEN UnmarshalFieldDefinitions(rawRecDef["FieldDefinitions"])
                  ELSE <<(<<>>), parent[2]>>
    IN IF name[2] # NilErr
       THEN <<LoadedRecord("", "", NilReader, "", <<>>), name[2]>>
       ELSE IF match[2] # NilErr
       THEN <<LoadedRecord(name[1], "", NilReader, "", <<>>), match[2]>>
       ELSE IF rname[2] # NilErr
       THEN <<LoadedRecord(name[1], match[1], NilReader, "", <<>>), rname[2]>>
       ELSE IF rawReader = JAbsent
       THEN <<LoadedRecord(name[1], match[1], NilReader, "", <<>>),
              Err("config", name[1], "RecordReader",
                  "No RecordReader defined in RecordDefinition", 0, "")>>
       ELSE IF rawReader.t # "object"
       THEN <<LoadedRecord(name[1], match[1], NilReader, "", <<>>), JsonErr>>
       ELSE IF func[2] # NilErr
       THEN <<LoadedRecord(name[1], match[1], NilReader, "", <<>>),
              Err("config", name[1], "ReaderName",
                  "Error getting record reader unmarshal function", 0, "")>>
       ELSE IF parent[2] # NilErr
       THEN <<LoadedRecord(name[1], match[1], made[1], "", <<>>), parent[2]>>
       ELSE <<LoadedRecord(name[1], match[1], made[1], parent[1], flds[1]),
              flds[2]>>

(***************************************************************************)
(* Configuration documents                                                 *)
(***************************************************************************)
MaxDefs == 2

RawField(name, typeName) ==
    [Name |-> JString(name), TypeName |-> JString(typeName)]

RawFieldOf(name, typeName, fieldType) ==
    [Name |-> JString(name), TypeName |-> JString(typeName),
     FieldType |-> JObject(fieldType)]

RawFields ==
    { RawField("Id", "String"),
      RawFieldOf("Amount", "Number", [ConvertToDecimalPlaces |-> JNumber(2)]),
      RawField("Amount", "Number"),
      RawFieldOf("Date", "Date", [Format |-> JString("02-Jan-2006")]),
      RawFieldOf("Date", "Date", <<>>),            \* no Format
      RawField("Date", "Date"),                    \* no FieldType
      RawField("Id", "Money"),                     \* no such FieldType
      Without(RawField("Id", "String"), "Name"),
      Without(RawField("Id", "String"), "TypeName") }

\* FieldDefinitions arrays: empty, one field, a good field then any field
RawFieldLists ==
    {<<>>} \cup {<<f>> : f \in RawFields}
           \cup {<<RawField("Id", "String"), f>> : f \in RawFields}

RawRecord(name, readerName, recordReader, fieldDefs) ==
    [Name |-> JString(name), MatchExpression |-> JString("^H"),
     ReaderName |-> JString(readerName), RecordReader |-> JObject(recordReader),
     ParentRecordName |-> JString("Batch"),
     FieldDefinitions |-> JArray(fieldDefs)]

DelimitedConfig == [Delimiter |-> JString("~")]

FixedWidthConfig ==
    [Coordinates |-> JArray(<<[Start |-> 0, End |-> 3],
                              [Start |-> 3, End |-> 13]>>)]

GoodRecord == RawRecord("Header", "Delimited", DelimitedConfig, <<>>)

RawRecords ==
    {RawRecord("Header", "Delimited", DelimitedConfig, fs) : fs \in RawFieldLists}
    \cup
    { RawRecord("Line", "FixedWidth", FixedWidthConfig, <<>>),
      RawRecord("Line", "Tabular", DelimitedConfig, <<>>),   \* no such reader
      RawRecord("Line", "Delimited", [Delimiter |-> JNumber(7)], <<>>),
      Without(GoodRecord, "Name"),
      Without(GoodRecord, "MatchExpression"),
      Without(GoodRecord, "ReaderName"),
      Without(GoodRecord, "RecordReader"),
      Without(GoodRecord, "ParentRecordName"),
      Without(GoodRecord, "FieldDefinitions") }

RawRecordLists ==
    UNION {[1..n -> RawRecords] : n \in 0..MaxDefs}

\* the documents NewParser is given, with and without SplitOnRecordName
Configs ==
    {[RecordDefinitions |-> JArray(rs),
      SplitOnRecordName |-> JString("Header")] : rs \in RawRecordLists}
    \cup
    {[RecordDefinitions |-> JArray(rs)] : rs \in RawRecordLists}

(***************************************************************************)
(* NewParser                                                               *)
(***************************************************************************)
\* the zero Parser
ZeroParser ==
    [RecordDefinitions |-> <<>>, SplitOnRecordName |-> "",
     RecordProcessor |-> "nil", ErrorHandler |-> "nil"]

LoadInit ==
    /\ IdleBut("load")
    /\ config \in Configs
    /\ parser = ZeroParser
    /\ cfgErr = Running
    /\ decIdx = 1
    /\ npc = "decode"

RawDefs == config.RecordDefinitions.a

\* Decode calls UnmarshalJSON on the next element of RecordDefinitions;
\* its error is the error of Decode, which NewParser returns
UnmarshalRecordDefinition ==
    /\ npc = "decode"
    /\ decIdx <= Len(RawDefs)
    /\ LET r == RecordDefinitionUnmarshalJSON(RawDefs[decIdx])
       IN /\ parser' = [parser EXCEPT !.RecordDefinitions = Append(@, r[1])]
          /\ IF r[2] # NilErr
             THEN /\ cfgErr' = ConfigurationError(r[2])
                  /\ npc' = "done"
                  /\ UNCHANGED decIdx
             ELSE /\ decIdx' = decIdx + 1
                  /\ UNCHANGED <<cfgErr, npc>>
    /\ UNCHANGED <<config, notLoad>>

\* Decode fills SplitOnRecordName if the document has it and returns nil
DecodeSplitOnRecordName ==
    /\ npc = "decode"
    /\ decIdx > Len(RawDefs)
    /\ LET split == unmarshalString(config, "SplitOnRecordName", "")
       IN /\ parser' = [parser EXCEPT !.SplitOnRecordName = split[1]]
          /\ IF split[2] # NilErr
             THEN cfgErr' = ConfigurationError(split[2]) /\ npc' = "done"
             ELSE npc' = "callbacks" /\ UNCHANGED cfgErr
    /\ UNCHANGED <<config, decIdx, notLoad>>

\* the callbacks given to NewParser, nil ones replaced by the defaults
SetCallbacks ==
    /\ npc = "callbacks"
    /\ \E processor \in {"nil", "given"}, h \in {"nil", "given"} :
          parser' = [parser EXCEPT
              !.RecordProcessor = IF processor = "nil" THEN "noop" ELSE "given",
              !.ErrorHandler = IF h = "nil" THEN "default" ELSE "given"]
    /\ cfgErr' = NilErr
    /\ npc' = "done"
    /\ UNCHANGED <<config, decIdx, notLoad>>

LoadNext ==
    \/ UnmarshalRecordDefinition
    \/ DecodeSplitOnRecordName
    \/ SetCallbacks

LoadSpec == LoadInit /\ [][LoadNext]_vars

(***************************************************************************)
(* FixedWidthRecordReader.Read.  data is a slice: its bytes are the first  *)
(* len bytes of buf, and buf goes on up to the slice's capacity with       *)
(* whatever follows the line in the scanner's buffer.  A coordinate is a   *)
(* range 0 <= Start <= End.                                                *)
(***************************************************************************)
MaxCoords == 2

\* "033ACCTNUM001"
Sample == <<"0", "3", "3", "A", "C", "C", "T", "N", "U", "M", "0", "0", "1">>

\* what follows the line in the buffer: the line end and the next line
Rest == <<"\n", "0", "3", "0">>

Slices ==
    {[buf |-> SubSeq(Sample, 1, n) \o SubSeq(Rest, 1, k), len |-> n] :
        n \in {0, 5, 13}, k \in {0, 2, 4}}

Offsets == {0, 3, 5, 13, 15, 20}

Coordinate(start, end) == [Start |-> start, End |-> end]

Coordinates ==
    {c \in {Coordinate(s, e) : s \in Offsets, e \in Offsets} :
        c.Start <= c.End}

Readers ==
    {FixedWidthRecordReader(cs) :
        cs \in UNION {[1..n -> Coordinates] : n \in 0..MaxCoords}}

\* the bytes of the line
Bytes(d) == SubSeq(d.buf, 1, d.len)

cap(d) == Len(d.buf)

\* The slice expression with its upper index taken as the last byte
SliceThrough(d, low, high) == <<SubSeq(d.buf, low + 1, high + 1), TRUE>>

\* data[low:high]: <<bytes, in range>>; the upper index is checked against
\* the capacity of the slice, not against its length
Slice(d, low, high) ==
    IF 0 <= low /\ low <= high /\ high <= cap(d)
    THEN <<SubSeq(d.buf, low + 1, high), TRUE>>
    ELSE <<(<<>>), FALSE>>

ReadInit ==
    /\ IdleBut("read")
    /\ reader \in Readers
    /\ lineData \in Slices
    /\ values = [i \in 1..Len(reader.Coordinates) |-> <<>>]
    /\ coordIdx = 1
    /\ readErr = NilErr
    /\ rpc = "loop"

\* values[i] = string(data[coord.Start:coord.End])
ReadCoordinate ==
    /\ rpc = "loop"
    /\ coordIdx <= Len(reader.Coordinates)
    /\ LET coord == reader.Coordinates[coordIdx]
           bytes == Slice(lineData, coord.Start, coord.End)
       IN IF bytes[2]
          THEN /\ values' = [values EXCEPT ![coordIdx] = bytes[1]]
               /\ coordIdx' = coordIdx + 1
               /\ UNCHANGED rpc
          ELSE /\ rpc' = "panic"
               /\ UNCHANGED <<values, coordIdx>>
    /\ UNCHANGED <<reader, lineData, readErr, notRead>>

\* return values, nil
ReadReturn ==
    /\ rpc = "loop"
    /\ coordIdx > Len(reader.Coordinates)
    /\ readErr' = NilErr
    /\ rpc' = "return"
    /\ UNCHANGED <<reader, lineData, values, coordIdx, notRead>>

ReadNext ==
    \/ ReadCoordinate
    \/ ReadReturn

ReadSpec == ReadInit /\ [][ReadNext]_vars

(***************************************************************************)
(* The Number field type on its own: the registered factory builds the     *)
(* NumberFieldType from the FieldType configuration, GetValue converts one *)
(* piece of line data.                                                     *)
(***************************************************************************)
MaxChars == 3

Chars == {"1", "5", ".", "-", "a"}

RECURSIVE Strings(_)
Strings(n) ==
    IF n = 0 THEN {<<>>}
    ELSE Strings(n - 1) \cup {Append(str, c) : str \in Strings(n - 1), c \in Chars}

\* the line data handed to GetValue
NumberData == Strings(MaxChars) \cup {<<"1", "2", "3", "4", "5">>, <<"1", "2", "3">>}

\* the FieldType key of a Number field: absent, or an object with or
\* without ConvertToDecimalPlaces
NumberConfigs ==
    {JAbsent, JObject(<<>>)}
    \cup {JObject([k \in {"ConvertToDecimalPlaces"} |-> JNumber(n)]) : n \in -1..2}

NumInit ==
    /\ IdleBut("num")
    /\ numCfg \in NumberConfigs
    /\ numData \in NumberData
    /\ nft = <<>>
    /\ numOut = <<>>
    /\ numPc = "new"

\* FieldTypeRegistry["Number"](data)
NumberFactory ==
    /\ numPc = "new"
    /\ nft' = NumberUnmarshalFunc(numCfg)[1]
    /\ numPc' = "get"
    /\ UNCHANGED <<numCfg, numData, numOut, notNum>>

\* nft.GetValue(data)
NumberConvert ==
    /\ numPc = "get"
    /\ numOut' = NumberGetValue(nft.ConvertToDecimalPlaces, numData)
    /\ numPc' = "done"
    /\ UNCHANGED <<numCfg, nft, numData, notNum>>

NumNext ==
    \/ NumberFactory
    \/ NumberConvert

NumSpec == NumInit /\ [][NumNext]_vars

(***************************************************************************)
(* Record.FindRecord and Record.GetField on a tree of Records.  ftree is   *)
(* a heap like the one of Parse; FindRecord is called on its record 1.     *)
(***************************************************************************)
MaxNodes == 3

\* return Field{}, fmt.Errorf("No Field named ...")
NoFieldErr(name, recName) == Err("errorString", recName, name, "No Field named", 0, "")

\* rec.GetField(name): <<the first field of that name, error>>
GetField(h, r, name) ==
    LET at == {i \in 1..Len(h[r].Fields) : h[r].Fields[i].Name = name}
    IN IF at = {} THEN <<Field("", "", NilValue), NoFieldErr(name, h[r].Name)>>
       ELSE <<h[r].Fields[CHOOSE i \in at : \A j \in at : i <= j], NilErr>>

\* rec.FindRecord(recordName, matches): the *Record found (0: nil)
RECURSIVE FindRecord(_, _, _, _)
FindRecord(h, r, recordName, matches) ==
    LET missing(i) == GetField(h, r, matches[i].Name)[2] # NilErr
        differs(i) == GetField(h, r, matches[i].Name)[1] # matches[i]
        stops == {i \in 1..Len(matches) : missing(i) \/ differs(i)}
        first == CHOOSE i \in stops : \A j \in stops : i <= j
        sub == [i \in 1..Len(h[r].Children) |->
                  FindRecord(h, h[r].Children[i], recordName, matches)]
        got == {i \in 1..Len(sub) : sub[i] # 0}
    IN IF h[r].Name = recordName /\ stops = {} THEN r
       ELSE IF h[r].Name = recordName /\ missing(first) THEN 0
       ELSE IF got = {} THEN 0
       ELSE sub[CHOOSE i \in got : \A j \in got : i <= j]

\* the members of S in ascending order
RECURSIVE Ascending(_)
Ascending(S) ==
    IF S = {} THEN <<>>
    ELSE LET least == CHOOSE x \in S : \A y \in S : x <= y
         IN <<least>> \o Ascending(S \ {least})

RecordNames == {"Header", "Line"}

CodeField(v) == Field("Code", "String", StringValue(<<v>>))

KindField == Field("Kind", "String", StringValue(<<"k">>))

\* the Fields a record of a tree may have
FieldLists ==
    {<<>>, <<CodeField("a")>>, <<CodeField("a"), KindField>>}

\* the matches a caller may ask for
MatchLists ==
    {<<>>, <<CodeField("a")>>, <<CodeField("b")>>,
     <<Field("Code", "Number", StringValue(<<"a">>))>>,
     <<CodeField("a"), KindField>>}

\* the trees of n records: record 1 is the root, every other record is a
\* child of an earlier one, Children in the order of the lines
Trees(n) ==
    {[r \in 1..n |->
        [NewRecord(names[r]) EXCEPT
            !.Fields = fields[r],
            !.isWithinSplit = TRUE,
            !.Children = Ascending({c \in 2..n : up[c] = r})]] :
        names \in [1..n -> RecordNames],
        fields \in [1..n -> FieldLists],
        up \in {u \in [2..n -> 1..n] : \A c \in 2..n : u[c] < c}}

FindInit ==
    /\ IdleBut("find")
    /\ ftree \in UNION {Trees(n) : n \in 1..MaxNodes}
    /\ fname \in RecordNames
    /\ fmatches \in MatchLists
    /\ found = 0
    /\ fpc = "call"

\* found := ftree[1].FindRecord(fname, fmatches)
CallFindRecord ==
    /\ fpc = "call"
    /\ found' = FindRecord(ftree, 1, fname, fmatches)
    /\ fpc' = "done"
    /\ UNCHANGED <<ftree, fname, fmatches, notFind>>

FindNext == CallFindRecord

FindSpec == FindInit /\ [][FindNext]_vars

(***************************************************************************)
(* The channel version.  Parse starts the goroutine parse, which sends     *)
(* every completed top-level record on recordChan and the first error on   *)
(* errChan, both unbuffered: a send is a rendezvous with the receive of    *)
(* the consumer.  Process is the consumer: it selects on both channels,    *)
(* calls the processor for what it receives and stops at the first nil.    *)
(* gpc is the position of the goroutine, cpc the position of Process.      *)
(***************************************************************************)
MaxChanLines == 4

\* the lines the source may hold
ChanLines ==
    { Line("H", <<Text, Number, Text>>),
      Line("H", <<Text, Text, Text>>),
      Line("H", <<Text, Number>>),
      Unreadable("L"),
      Line("L", <<Text>>),
      Line("B", <<Text>>) }

\* p.RecordDefinitions
ChanSchemas == {InvoiceSchema, BatchSchema, SelfSchema, LoopSchema}

ChanDefs == cschema.RecordDefinitions

\* rec := Record{Name: recDef.Name, Fields: ..., Children: ...}
ChanRecord(name, fields) ==
    [Name |-> name, Fields |-> fields, Children |-> <<>>]

\* fmt.Errorf(...)
ChanErr(msg, recName, fldName, line) ==
    Err("errorString", recName, fldName, msg, line, "")

\* the loop over recDef.FieldDefinitions: the fields, or the first error
ChanFields(rd, vals, line) ==
    LET fds == rd.FieldDefinitions
        conv(i) == GetValue(fds[i], vals[i])
        bad == {i \in 1..Len(fds) : i > Len(vals) \/ conv(i)[2] # NilErr}
        first == CHOOSE i \in bad : \A j \in bad : i <= j
    IN IF bad = {}
       THEN [err |-> NilErr,
             fields |-> [i \in 1..Len(fds) |->
                           Field(fds[i].Name, fds[i].TypeName, conv(i)[1])]]
       ELSE IF first > Len(vals)
       THEN [err |-> ChanErr("past the end of available data",
                             rd.Name, fds[first].Name, line),
             fields |-> <<>>]
       ELSE [err |-> ChanErr("getting field value", "", "", line),
             fields |-> <<>>]

\* the body of the loop over the RecordDefinitions for one line, up to the
\* record built: no definition matches ("skip"), an error is to be sent
\* ("err"), or the record of definition def is built ("rec")
Scanned(data, line) ==
    LET stop == {d \in 1..Len(ChanDefs) :
                    Match(ChanDefs[d], data)[2] # NilErr \/ Match(ChanDefs[d], data)[1]}
        d == CHOOSE x \in stop : \A y \in stop : x <= y
        built == ChanFields(ChanDefs[d], Read(ChanDefs[d], data)[1], line)
    IN IF stop = {} THEN [kind |-> "skip"]
       ELSE IF Match(ChanDefs[d], data)[2] # NilErr
       THEN [kind |-> "err", err |-> Match(ChanDefs[d], data)[2]]
       ELSE IF Read(ChanDefs[d], data)[2] # NilErr
       THEN [kind |-> "err", err |-> ChanErr("reading from RecordReader", "", "", line)]
       ELSE IF built.err # NilErr
       THEN [kind |-> "err", err |-> built.err]
       ELSE [kind |-> "rec", def |-> d, fields |-> built.fields]

\* an invocation of the processor: the record (0: nil), the error, the heap
\* as it is when the call is made
ProcessorFunc(record, err) == [rec |-> record, err |-> err, heap |-> cheap]

\* p.ProcessFile(processor, elem...) or p.Process(processor, source), or
\* p.ParseFile(elem...) by a caller that then receives as Process does
ChanInit ==
    /\ IdleBut("chan")
    /\ cschema \in ChanSchemas
    /\ cpath \in {"present", "missing"}
    /\ cinput = <<>>
    /\ gpc = "none"
    /\ cheap = <<>>
    /\ clast = [n \in Names(cschema) |-> 0]
    /\ topRec = 0
    /\ crec = 0
    /\ pending = NilErr
    /\ errClosed = FALSE
    /\ recClosed = FALSE
    /\ srcCloses = 0
    /\ panicking = FALSE
    /\ cpc \in {"open", "parsefile"}
    /\ recvd = <<>>
    /\ pcalls = <<>>

\* ProcessFile: os.Open; on failure processor(nil, err) and return, else
\* Process, whose call of Parse makes the channels and starts the goroutine
ProcessFile ==
    /\ cpc = "open"
    /\ IF cpath = "missing"
       THEN /\ pcalls' = Append(pcalls, ProcessorFunc(0, OpenErr))
            /\ cpc' = "done"
            /\ gpc' = gpc
       ELSE /\ cpc' = "select"
            /\ gpc' = "scan"
            /\ pcalls' = pcalls
    /\ UNCHANGED <<cschema, cpath, cinput, cheap, clast, topRec, crec, pending,
                   errClosed, recClosed, srcCloses, panicking, recvd, notChan>>

\* ParseFile: os.Open; on failure errChan <- &err, a send on the unbuffered
\* channel ParseFile has just made and not yet returned, so that nothing can
\* receive from it; else Parse, which makes the channels the caller gets
\* and starts the goroutine
ParseFile ==
    /\ cpc = "parsefile"
    /\ IF cpath = "missing"
       THEN cpc' = "sendopenerr" /\ gpc' = gpc
       ELSE cpc' = "select" /\ gpc' = "scan"
    /\ UNCHANGED <<cschema, cpath, cinput, cheap, clast, topRec, crec, pending,
                   errClosed, recClosed, srcCloses, panicking, recvd, pcalls,
                   notChan>>

\* for scanner.Scan() { lineNum++; for _, recDef := range ... }: one line,
\* up to the next send or the next Scan
parseLine ==
    /\ gpc = "scan"
    /\ Len(cinput) < MaxChanLines
    /\ \E data \in ChanLines : \E out \in {Scanned(data, Len(cinput) + 1)} :
        LET line == Len(cinput) + 1
            new  == Len(cheap) + 1
            rd   == ChanDefs[out.def]
            h1   == Append(cheap, ChanRecord(rd.Name, out.fields))
            l1   == [clast EXCEPT ![rd.Name] = new]
            parent == IF rd.ParentRecordName \in DOMAIN l1
                      THEN l1[rd.ParentRecordName] ELSE 0
        IN /\ cinput' = Append(cinput, data)
           /\ CASE out.kind = "skip" ->
                     /\ gpc' = "scan"
                     /\ UNCHANGED <<cheap, clast, topRec, crec, pending>>
                [] out.kind = "err" ->
                     /\ pending' = out.err
                     /\ gpc' = "senderr"
                     /\ UNCHANGED <<cheap, clast, topRec, crec>>
                [] out.kind = "rec" /\ rd.ParentRecordName = "" ->
                     /\ cheap' = h1
                     /\ clast' = l1
                     /\ IF topRec # 0
                        THEN crec' = new /\ gpc' = "sendrec" /\ topRec' = topRec
                        ELSE topRec' = new /\ gpc' = "scan" /\ crec' = crec
                     /\ pending' = pending
                [] out.kind = "rec" /\ rd.ParentRecordName # "" ->
                     /\ clast' = l1
                     /\ IF parent # 0
                        THEN /\ cheap' = [h1 EXCEPT ![parent].Children = Append(@, new)]
                             /\ gpc' = "scan"
                             /\ pending' = pending
                        ELSE /\ cheap' = h1
                             /\ pending' = ChanErr("No available parent record",
                                                   rd.Name, "", line)
                             /\ gpc' = "senderr"
                     /\ UNCHANGED <<topRec, crec>>
    /\ UNCHANGED <<cschema, cpath, errClosed, recClosed, srcCloses, panicking,
                   cpc, recvd, pcalls, notChan>>

\* scanner.Scan() returns false: logger.Printf(..., topRec.Name), a nil
\* dereference when there is no top-level record, then recordChan <- topRec
parseEnd ==
    /\ gpc = "scan"
    /\ IF topRec = 0
       THEN panicking' = TRUE /\ gpc' = "closeErr"
       ELSE panicking' = panicking /\ gpc' = "sendfinal"
    /\ UNCHANGED <<cschema, cpath, cinput, cheap, clast, topRec, crec, pending,
                   errClosed, recClosed, srcCloses, cpc, recvd, pcalls, notChan>>

\* defer close(errChan), the first deferred call to run
closeErrChan ==
    /\ gpc = "closeErr"
    /\ errClosed' = TRUE
    /\ gpc' = "closeRec"
    /\ UNCHANGED <<cschema, cpath, cinput, cheap, clast, topRec, crec, pending,
                   recClosed, srcCloses, panicking, cpc, recvd, pcalls, notChan>>

\* defer close(recordChan)
closeRecordChan ==
    /\ gpc = "closeRec"
    /\ recClosed' = TRUE
    /\ gpc' = "closeSrc"
    /\ UNCHANGED <<cschema, cpath, cinput, cheap, clast, topRec, crec, pending,
                   errClosed, srcCloses, panicking, cpc, recvd, pcalls, notChan>>

\* defer source.Close(), the last deferred call; a panicking goroutine
\* then takes the process down
closeSource ==
    /\ gpc = "closeSrc"
    /\ srcCloses' = srcCloses + 1
    /\ gpc' = IF panicking THEN "crashed" ELSE "exited"
    /\ UNCHANGED <<cschema, cpath, cinput, cheap, clast, topRec, crec, pending,
                   errClosed, recClosed, panicking, cpc, recvd, pcalls, notChan>>

\* RecvErr with a goroutine that goes on scanning after the send
RecvErrGoesOn ==
    /\ cpc = "select"
    /\ gpc = "senderr"
    /\ recvd' = ProcessorFunc(0, pending)
    /\ cpc' = "call"
    /\ gpc' = "scan"
    /\ UNCHANGED <<cschema, cpath, cinput, cheap, clast, topRec, crec, pending,
                   errClosed, recClosed, srcCloses, panicking, pcalls, notChan>>

\* case err := <-errChan meeting errChan <- &err; the goroutine returns
RecvErr ==
    /\ cpc = "select"
    /\ gpc = "senderr"
    /\ recvd' = ProcessorFunc(0, pending)
    /\ cpc' = "call"
    /\ gpc' = "closeErr"
    /\ UNCHANGED <<cschema, cpath, cinput, cheap, clast, topRec, crec, pending,
                   errClosed, recClosed, srcCloses, panicking, pcalls, notChan>>

\* RecvRec handing over the record just built instead of the one before it
RecvRecNewest ==
    /\ cpc = "select"
    /\ gpc \in {"sendrec", "sendfinal"}
    /\ recvd' = ProcessorFunc(IF gpc = "sendrec" THEN crec ELSE topRec, NilErr)
    /\ cpc' = "call"
    /\ IF gpc = "sendrec"
       THEN topRec' = topRec /\ crec' = 0 /\ gpc' = "scan"
       ELSE gpc' = "closeErr" /\ UNCHANGED <<topRec, crec>>
    /\ UNCHANGED <<cschema, cpath, cinput, cheap, clast, pending,
                   errClosed, recClosed, srcCloses, panicking, pcalls, notChan>>

\* case rec := <-recChan meeting recordChan <- topRec: in the loop the
\* goroutine goes on with topRec = &rec, after the loop it returns
RecvRec ==
    /\ cpc = "select"
    /\ gpc \in {"sendrec", "sendfinal"}
    /\ recvd' = ProcessorFunc(topRec, NilErr)
    /\ cpc' = "call"
    /\ IF gpc = "sendrec"
       THEN topRec' = crec /\ crec' = 0 /\ gpc' = "scan"
       ELSE gpc' = "closeErr" /\ UNCHANGED <<topRec, crec>>
    /\ UNCHANGED <<cschema, cpath, cinput, cheap, clast, pending,
                   errClosed, recClosed, srcCloses, panicking, pcalls, notChan>>

\* processor(nil, *err) or processor(rec, nil)
CallProcessor ==
    /\ cpc = "call"
    /\ gpc # "crashed"
    /\ pcalls' = Append(pcalls, ProcessorFunc(recvd.rec, recvd.err))
    /\ cpc' = "select"
    /\ UNCHANGED <<cschema, cpath, cinput, gpc, cheap, clast, topRec, crec, pending,
                   errClosed, recClosed, srcCloses, panicking, recvd, notChan>>

\* a receive from a closed channel yields nil: break channelListener
RecvNil ==
    /\ cpc = "select"
    /\ gpc # "crashed"
    /\ errClosed \/ recClosed
    /\ cpc' = "done"
    /\ UNCHANGED <<cschema, cpath, cinput, gpc, cheap, clast, topRec, crec, pending,
                   errClosed, recClosed, srcCloses, panicking, recvd, pcalls, notChan>>

ChanNext ==
    \/ ProcessFile
    \/ ParseFile
    \/ parseLine
    \/ parseEnd
    \/ closeErrChan
    \/ closeRecordChan
    \/ closeSource
    \/ RecvErr
    \/ RecvRec
    \/ CallProcessor
    \/ RecvNil

ChanSpec == ChanInit /\ [][ChanNext]_vars

(***************************************************************************)
(* What the input says, read off the lines alone                           *)
(***************************************************************************)
Defs == schema.RecordDefinitions

SplitName == schema.SplitOnRecordName

\* the first definition, in declaration order, that matches the line (0: none)
FirstMatch(line) ==
    LET M == {d \in 1..Len(Defs) : Match(Defs[d], line)[1]}
    IN IF M = {} THEN 0 ELSE CHOOSE d \in M : \A e \in M : d <= e

\* the record type of line n ("": the line matches no definition)
TypeOf(n) ==
    IF FirstMatch(input[n]) = 0 THEN "" ELSE Defs[FirstMatch(input[n])].Name

\* the declared parent type of line n
ParentOf(n) ==
    IF FirstMatch(input[n]) = 0 THEN ""
    ELSE Defs[FirstMatch(input[n])].ParentRecordName

SplitLines == {n \in 1..Len(input) : TypeOf(n) = SplitName}

\* the i-th line of the split type
SplitLineNo(i) ==
    CHOOSE n \in SplitLines : Cardinality({m \in SplitLines : m <= n}) = i

Range(seq) == {seq[i] : i \in 1..Len(seq)}

Last(seq) == seq[Len(seq)]

ReturnedNil == pc = "done" /\ result = NilErr

(***************************************************************************)
(* C1: when Parse returns nil on an input with k >= 1 lines of the split   *)
(* type, the RecordProcessor has been invoked exactly k times, the i-th    *)
(* time with the record built from the i-th split-type line, whose Name is *)
(* SplitOnRecordName.                                                      *)
(***************************************************************************)
C1_OneCallPerSplitLine ==
    (ReturnedNil /\ SplitLines # {}) =>
        /\ Len(calls) = Cardinality(SplitLines)
        /\ \A i \in 1..Len(calls) :
              /\ calls[i].rec # 0
              /\ heap[calls[i].rec].Name = SplitName
              /\ origin[calls[i].rec] = SplitLineNo(i)

C1_Witness ==
    /\ ReturnedNil
    /\ Cardinality(SplitLines) >= 2
    /\ Len(calls) = Cardinality(SplitLines)
    /\ Len(input) > Cardinality(SplitLines)

(***************************************************************************)
(* Units: the records reachable through Children                           *)
(***************************************************************************)
RECURSIVE ReachFrom(_, _)
ReachFrom(h, S) ==
    LET N == S \cup UNION {Range(h[p].Children) : p \in S}
    IN IF N = S THEN S ELSE ReachFrom(h, N)

\* the subtree of record root in heap h
Unit(h, root) == ReachFrom(h, {root})

\* the split type and its transitive child types
RECURSIVE TypesBelow(_)
TypesBelow(S) ==
    LET N == S \cup {Defs[d].Name : d \in {e \in 1..Len(Defs) :
                                            Defs[e].ParentRecordName \in S}}
    IN IF N = S THEN S ELSE TypesBelow(N)

WithinTypes == TypesBelow({SplitName})

\* the last split-type line before line n (0: none)
PrevSplit(n) ==
    LET P == {m \in SplitLines : m < n}
    IN IF P = {} THEN 0 ELSE CHOOSE m \in P : \A k \in P : k <= m

\* the first split-type line after line n (Len(input) + 1: none)
NextSplit(n) ==
    LET P == {m \in SplitLines : m > n}
    IN IF P = {} THEN Len(input) + 1 ELSE CHOOSE m \in P : \A k \in P : m <= k

\* the last line of type name before line n (0: none)
MostRecent(n, name) ==
    LET P == {m \in 1..(n - 1) : TypeOf(m) = name}
    IN IF P = {} THEN 0 ELSE CHOOSE m \in P : \A k \in P : k <= m

\* every child-type line is preceded, from the most recent split-type line
\* on, by a line of its declared parent type
ParentsPrecede ==
    \A n \in 1..Len(input) :
        ParentOf(n) # "" =>
            \E j \in 1..(n - 1) : j >= PrevSplit(n) /\ TypeOf(j) = ParentOf(n)

\* in the unit of call c, every record other than the root is a child of the
\* record of the most recent preceding line of its declared parent type, and
\* every Children list is in input line order
WellJoined(c) ==
    LET U == Unit(c.heap, c.rec)
    IN /\ \A r \in U \ {c.rec} :
             \E q \in U :
                /\ r \in Range(c.heap[q].Children)
                /\ origin[q] = MostRecent(origin[r], ParentOf(origin[r]))
       /\ \A q \in U :
             \A i, j \in 1..Len(c.heap[q].Children) :
                i < j => origin[c.heap[q].Children[i]]
                            < origin[c.heap[q].Children[j]]

\* the lines whose records make up the unit of call c
UnitLines(c) == {origin[r] : r \in Unit(c.heap, c.rec)}

\* the lines from the unit's own line up to the next split-type line
Span(c) == origin[c.rec] .. (NextSplit(origin[c.rec]) - 1)

(***************************************************************************)
(* C2 as stated: on an input parsed without error in which parents precede *)
(* their children, each unit holds exactly the records of the lines        *)
(* between its own line and the next split-type line, well joined.         *)
(***************************************************************************)
C2_UnitHoldsEveryLineBetween ==
    (ReturnedNil /\ ParentsPrecede) =>
        \A i \in 1..Len(calls) :
            calls[i].rec # 0 =>
                /\ UnitLines(calls[i])
                      = {n \in Span(calls[i]) : TypeOf(n) # ""}
                /\ WellJoined(calls[i])

(***************************************************************************)
(* C2 amended: each unit holds exactly the records of the lines of the     *)
(* split type and of its transitive child types between its own line and   *)
(* the next split-type line, well joined; records of other types are not   *)
(* part of the unit.                                                       *)
(***************************************************************************)
C2_UnitHoldsLinesBelowSplit ==
    (ReturnedNil /\ ParentsPrecede) =>
        \A i \in 1..Len(calls) :
            calls[i].rec # 0 =>
                /\ UnitLines(calls[i])
                      = {n \in Span(calls[i]) : TypeOf(n) \in WithinTypes}
                /\ WellJoined(calls[i])

C2_Witness ==
    /\ ReturnedNil
    /\ ParentsPrecede
    /\ calls # <<>>
    /\ calls[1].rec # 0
    /\ Cardinality(UnitLines(calls[1])) >= 2
    /\ \E n \in Span(calls[1]) : TypeOf(n) \notin WithinTypes \cup {""}

\* the records built from the lines from line lo on whose declared parent
\* is the type name, the record of the current line left out
ChildrenSince(lo, name) ==
    {r \in 1..Len(heap) :
        /\ r # rec
        /\ origin[r] >= lo
        /\ ParentOf(origin[r]) = name}

\* seq lists exactly the records of S, in input line order
ListsInOrder(seq, S) ==
    /\ Range(seq) = S
    /\ \A i, j \in 1..Len(seq) : i < j => origin[seq[i]] < origin[seq[j]]

\* record r is attached nowhere in heap h
Unattached(h, r) ==
    /\ h[r].Parent = 0
    /\ ~h[r].isWithinSplit
    /\ \A q \in 1..Len(h) : r \notin Range(h[q].Children)

(***************************************************************************)
(* C3: at a split-type line recognised while a split record is in flight,  *)
(* the RecordProcessor receives the previous split record while the new    *)
(* record is not yet splitRec and is attached nowhere, and the children of *)
(* the record handed over are the records of all the lines since its own   *)
(* whose declared parent is the split type, in input order.                *)
(***************************************************************************)
C3_HandOverBeforeNewSplit ==
    [][(pc = "split" /\ calls' # calls) =>
          LET c == Last(calls')
          IN /\ c.rec = splitRec
             /\ c.rec # rec
             /\ origin[c.rec] < lineNum
             /\ splitRec' = splitRec
             /\ Unattached(c.heap, rec)
             /\ Unattached(heap', rec)
             /\ ListsInOrder(c.heap[c.rec].Children,
                             ChildrenSince(origin[c.rec], SplitName))]_vars

\* Header, Line, Line, Header: the first unit is handed over with 2 Lines
C3_Witness ==
    /\ schema = InvoiceSchema
    /\ pc = "setsplit"
    /\ Len(input) = 4
    /\ <<TypeOf(1), TypeOf(2), TypeOf(3), TypeOf(4)>>
          = <<"Header", "Line", "Line", "Header">>
    /\ Len(calls) = 1
    /\ calls[1].rec = 1
    /\ calls[1].heap[1].Children = <<2, 3>>
    /\ splitRec = 1
    /\ rec = 4

(***************************************************************************)
(* C4: once a unit has been handed to the RecordProcessor, no record of    *)
(* its subtree is modified any more: each is as it was at the hand-over.   *)
(***************************************************************************)
C4_EmittedUnitIsNeverModified ==
    \A i \in 1..Len(calls) :
        calls[i].rec # 0 =>
            \A r \in Unit(calls[i].heap, calls[i].rec) :
                heap[r] = calls[i].heap[r]

(***************************************************************************)
(* C5: once a unit has been handed to the RecordProcessor and the new      *)
(* split record has taken its place, neither splitRec nor any entry of     *)
(* lastRecords refers to a record of the unit's subtree.                   *)
(***************************************************************************)
C5_EngineKeepsNoEmittedRecord ==
    pc \notin {"setsplit", "done"} =>
        \A i \in 1..Len(calls) :
            calls[i].rec # 0 =>
                \A r \in Unit(calls[i].heap, calls[i].rec) :
                    /\ splitRec # r
                    /\ \A n \in DOMAIN lastRecords : lastRecords[n] # r

(***************************************************************************)
(* C6: when the input is exhausted, the RecordProcessor is invoked once    *)
(* more with splitRec, which is the record of the last split-type line, or *)
(* nil when no line was of the split type.                                 *)
(***************************************************************************)
C6_LastHandOverAtEndOfInput ==
    [][(pc = "scan" /\ pc' = "done") =>
          /\ Len(calls') = Len(calls) + 1
          /\ Last(calls').rec = splitRec
          /\ Last(calls').heap = heap
          /\ IF SplitLines = {} THEN splitRec = 0
             ELSE /\ splitRec # 0
                  /\ origin[splitRec] = PrevSplit(Len(input) + 1)]_vars

\* lines were read, none of the split type: the one call receives nil
C6_Witness ==
    /\ pc = "done"
    /\ heap # <<>>
    /\ SplitLines = {}
    /\ Len(calls) = 1
    /\ calls[1].rec = 0

\* the definitions tested so far against line n
Tested(n) == {k \in 1..Len(hcalls) : hcalls[k].at = "match" /\ hcalls[k].line = n}

Processing == pc \in {"read", "field", "store", "split", "setsplit", "attach"}

(***************************************************************************)
(* C7: the definitions are tested against a line in declaration order and  *)
(* only up to the first that matches: that definition alone builds the     *)
(* record of the line, whatever later definitions match as well.           *)
(***************************************************************************)
C7_FirstMatchWins ==
    /\ pc = "match" =>
          /\ \A d \in 1..(defIdx - 1) : ~Match(Defs[d], input[lineNum])[1]
          /\ Cardinality(Tested(lineNum)) = defIdx - 1
    /\ Processing =>
          /\ defIdx = FirstMatch(input[lineNum])
          /\ rec # 0 => origin[rec] = lineNum
    /\ \A n \in 1..Len(input) :
          FirstMatch(input[n]) # 0 =>
              Cardinality(Tested(n)) <= FirstMatch(input[n])
    /\ \A r \in 1..Len(heap) : heap[r].Name = TypeOf(origin[r])
    /\ \A r, q \in 1..Len(heap) : r < q => origin[r] < origin[q]

\* a line that Line (no MatchExpression) and Shipment (^S) both match was
\* made a Line record, and the next line is awaited
C7_Witness ==
    /\ schema = OverlapSchema
    /\ pc = "scan"
    /\ \E r \in 1..Len(heap) :
          /\ input[origin[r]].tag = "S"
          /\ Match(Defs[3], input[origin[r]])[1]
          /\ heap[r].Name = "Line"
          /\ Cardinality(Tested(origin[r])) = 2

\* no definition matches the line, and none fails to be evaluated
NoMatch(line) ==
    \A d \in 1..Len(Defs) : Match(Defs[d], line) = <<FALSE, NilErr>>

(***************************************************************************)
(* C8: while a line that matches no definition is tested, no error is      *)
(* reported, the RecordProcessor is not called, no record is created and   *)
(* lastRecords and splitRec stay as they are; the line is counted: every   *)
(* line number in an error message is the number of lines read so far.     *)
(***************************************************************************)
C8_UnmatchedLineIsSkipped ==
    [][/\ (pc = "match" /\ NoMatch(input[lineNum])) =>
             /\ UNCHANGED <<heap, origin, rec, lastRecords, splitRec, calls>>
             /\ result' = Running
             /\ pc' \in {"match", "scan"}
             /\ hcalls' # hcalls => Last(hcalls').arg = NilErr
       /\ (pc = "scan" /\ pc' = "match") =>
             /\ lineNum' = Len(input')
             /\ Len(input') = Len(input) + 1
       /\ (hcalls' # hcalls /\ Last(hcalls').arg.line # 0) =>
             Last(hcalls').arg.line = Len(input')]_vars

\* the first line was skipped and an error is reported for line 2
C8_Witness ==
    /\ Len(input) = 2
    /\ NoMatch(input[1])
    /\ hcalls # <<>>
    /\ Last(hcalls).arg.line = 2
    /\ \A r \in 1..Len(heap) : origin[r] = 2
    /\ calls = <<>>

\* no line before the current one was made a record of type name
NoneSeen(name) ==
    \A r \in 1..Len(heap) : r # rec => heap[r].Name # name

(***************************************************************************)
(* C9: a line whose type declares a parent type of which no record has     *)
(* been seen is reported as a RecordParseError that carries the parent     *)
(* type and the line number, and the default handler makes Parse return it.*)
(***************************************************************************)
C9_MissingParentIsReported ==
    [][(/\ pc = "attach"
        /\ recDef.ParentRecordName # ""
        /\ NoneSeen(recDef.ParentRecordName)) =>
          /\ hcalls' # hcalls
          /\ Last(hcalls').arg.kind = "RecordParseError"
          /\ Last(hcalls').arg.parent = recDef.ParentRecordName
          /\ Last(hcalls').arg.line = Len(input)
          /\ handler = "default" =>
                (pc' = "done" /\ result' = Last(hcalls').arg)]_vars

(***************************************************************************)
(* C10: when the ErrorHandler returns a non-nil error, Parse returns that  *)
(* very error at once: no line is read and the RecordProcessor is not      *)
(* invoked after the handler's call, and nothing happens once Parse has    *)
(* returned.                                                               *)
(***************************************************************************)
C10_HandlerErrorEndsParse ==
    [][/\ (hcalls' # hcalls /\ Last(hcalls').ret # NilErr) =>
             /\ pc' = "done"
             /\ result' = Last(hcalls').ret
             /\ UNCHANGED <<input, lineNum, heap, lastRecords, splitRec>>
             /\ Last(hcalls').at # "final" => calls' = calls
       /\ (hcalls' # hcalls /\ Last(hcalls').ret = NilErr
                            /\ Last(hcalls').at # "final") =>
             (pc' = "done" => result' = Panic)
       /\ pc = "done" => UNCHANGED vars]_vars

\* a custom handler aborted with its own error while a unit was in flight:
\* the unit was never handed over
C10_Witness ==
    /\ pc = "done"
    /\ result = CustomErr
    /\ Last(hcalls).arg # CustomErr
    /\ Last(hcalls).arg # NilErr
    /\ splitRec # 0
    /\ calls = <<>>

(***************************************************************************)
(* Errors the ErrorHandler let pass                                        *)
(***************************************************************************)
\* the RecordDefinition the record r was built from
DefOf(r) == Defs[FirstMatch(input[origin[r]])]

\* the records whose line has been dealt with completely
Built == {r \in 1..Len(heap) : r # rec}

\* the handler calls that reported an error and let it pass
Passed == {k \in 1..Len(hcalls) :
              hcalls[k].arg # NilErr /\ hcalls[k].ret = NilErr}

(***************************************************************************)
(* C11: whenever the ErrorHandler returns nil for a reported error (reader *)
(* failure, too few values, field conversion failure, missing parent),     *)
(* Parse goes on without crashing, and the record of that line is built    *)
(* with one field per FieldDefinition.                                     *)
(***************************************************************************)
C11_PassedErrorNeverCrashes ==
    /\ result # Panic
    /\ \A r \in Built :
          Len(heap[r].Fields) = Len(DefOf(r).FieldDefinitions)

(***************************************************************************)
(* C12: when the RecordProcessor returns an error, Parse returns a non-nil *)
(* error and neither scans a line nor invokes the RecordProcessor again,   *)
(* at a split boundary and at the end of input alike, whatever the         *)
(* ErrorHandler.                                                           *)
(***************************************************************************)
C12_ProcessorErrorEndsParse ==
    \A i \in 1..Len(calls) :
        calls[i].ret # NilErr =>
            /\ i = Len(calls)
            /\ pc = "done"
            /\ result \notin {NilErr, Running}
            /\ Len(input) = calls[i].line

(***************************************************************************)
(* C13: the ErrorHandler is invoked only when an error has occurred: it is *)
(* never called with a nil error.                                          *)
(***************************************************************************)
C13_HandlerNeverGivenNil ==
    \A k \in 1..Len(hcalls) : hcalls[k].arg # NilErr

(***************************************************************************)
(* Lines with fewer values than fields                                     *)
(***************************************************************************)
\* what the RecordReader returned for the line of record r
ValuesOf(r) == Read(DefOf(r), input[origin[r]])[1]

\* the records whose reader returned fewer values than their definition
\* has FieldDefinitions
ShortRecords ==
    {r \in 1..Len(heap) : Len(ValuesOf(r)) < Len(DefOf(r).FieldDefinitions)}

\* the error a short line is reported with: record type and line number
ShortReport(e, r) ==
    /\ e.kind = "RecordParseError"
    /\ e.RecordName = heap[r].Name
    /\ e.line = origin[r]
    /\ e.msg = "Past the end of available data"

ReportedShort(r) ==
    \E k \in 1..Len(hcalls) :
        /\ hcalls[k].at = "field"
        /\ hcalls[k].line = origin[r]
        /\ ShortReport(hcalls[k].arg, r)

\* the fields of r that have a value are still being converted
Converting(r) == r = rec /\ pc = "field" /\ fldIdx <= Len(recVals) + 1

\* the handler ended Parse on the conversion failure of an earlier field
EndedOnField(r) ==
    \E k \in 1..Len(hcalls) :
        /\ hcalls[k].at = "field"
        /\ hcalls[k].line = origin[r]
        /\ hcalls[k].arg.kind = "FieldParseError"
        /\ hcalls[k].ret # NilErr

\* the record r has been neither stored, attached nor handed over
Dropped(r) ==
    /\ Unattached(heap, r)
    /\ \A n \in DOMAIN lastRecords : lastRecords[n] # r
    /\ splitRec # r
    /\ \A i \in 1..Len(calls) : calls[i].rec # r

\* under the default handler Parse returns the report of the short line
\* and leaves its record aside
ShortEndsDefault(r) ==
    (handler = "default" /\ ReportedShort(r)) =>
        /\ pc = "done"
        /\ ShortReport(result, r)
        /\ r = Len(heap)
        /\ Dropped(r)

(***************************************************************************)
(* C14 as stated: when the reader returns fewer values than the matched    *)
(* definition has FieldDefinitions, a RecordParseError naming the record   *)
(* type and the 1-based line number is reported to the ErrorHandler, and   *)
(* under the default handler Parse returns it without attaching or         *)
(* emitting the record of that line.                                       *)
(***************************************************************************)
C14_ShortLineIsReported ==
    \A r \in ShortRecords :
        /\ ReportedShort(r) \/ Converting(r)
        /\ ShortEndsDefault(r)

(***************************************************************************)
(* C14: a line with fewer values than fields is reported as a              *)
(* RecordParseError naming the record type and the 1-based line number     *)
(* once the fields that do have a value have been converted, unless the    *)
(* handler ended Parse on the conversion failure of one of them; under the *)
(* default handler Parse returns the report and the record of the line is  *)
(* neither stored, attached nor handed over.                               *)
(***************************************************************************)
C14_ShortLineReportedAfterItsValues ==
    \A r \in ShortRecords :
        /\ ReportedShort(r) \/ Converting(r) \/ EndedOnField(r)
        /\ ShortEndsDefault(r)

\* the short line comes after a line that was skipped and after a unit
C14_Witness ==
    /\ handler = "default"
    /\ pc = "done"
    /\ rec # 0
    /\ rec \in ShortRecords
    /\ ShortReport(result, rec)
    /\ result.line = 3
    /\ TypeOf(1) = SplitName
    /\ TypeOf(2) = ""

(***************************************************************************)
(* Fields that fail to convert                                             *)
(***************************************************************************)
\* the i-th FieldDefinition of record r and what its FieldType makes of the
\* i-th value of the line
FieldDefOf(r, i) == DefOf(r).FieldDefinitions[i]

Converted(r, i) == GetValue(FieldDefOf(r, i), ValuesOf(r)[i])

\* the positions of r that have both a FieldDefinition and a value
Positions(r) ==
    {i \in 1..Len(DefOf(r).FieldDefinitions) : i <= Len(ValuesOf(r))}

\* the handler calls that report the conversion failure of field i of r
FieldReports(r, i) ==
    {k \in 1..Len(hcalls) :
        /\ hcalls[k].at = "field"
        /\ hcalls[k].line = origin[r]
        /\ hcalls[k].arg.kind = "FieldParseError"
        /\ hcalls[k].arg.RecordName = heap[r].Name
        /\ hcalls[k].arg.FieldName = FieldDefOf(r, i).Name}

\* the fields of r are what its line's values convert to, each failure
\* having been reported under the record's and the field's name
FieldsAsConverted(r) ==
    /\ \A i \in Positions(r) :
          IF i <= Len(heap[r].Fields)
          THEN /\ heap[r].Fields[i].Name = FieldDefOf(r, i).Name
               /\ heap[r].Fields[i].Value = Converted(r, i)[1]
               /\ Converted(r, i)[2] # NilErr =>
                     \E k \in FieldReports(r, i) : hcalls[k].ret = NilErr
               /\ Converted(r, i)[2] = NilErr => FieldReports(r, i) = {}
          ELSE /\ pc \in {"field", "done"}
               /\ (pc = "done" /\ i = Len(heap[r].Fields) + 1) =>
                     \E k \in FieldReports(r, i) :
                         /\ hcalls[k].ret # NilErr
                         /\ result = hcalls[k].ret
    /\ (pc \in {"store", "split", "setsplit", "attach"}
           /\ r \notin ShortRecords) =>
          Len(heap[r].Fields) = Len(DefOf(r).FieldDefinitions)

(***************************************************************************)
(* C15: a value its FieldType cannot convert is reported as a              *)
(* FieldParseError carrying the record type name and the field name, and   *)
(* concerns that field only: the fields before it keep their converted     *)
(* values and, when the handler returns nil, the fields after it are       *)
(* converted as well. The fields of a record are settled while its line is *)
(* being processed and never change afterwards.                            *)
(***************************************************************************)
C15_FieldErrorIsLocal ==
    /\ [](rec # 0 => FieldsAsConverted(rec))
    /\ [][\A r \in 1..Len(heap) :
             (r # rec \/ pc # "field") =>
                 heap'[r].Fields = heap[r].Fields]_vars

\* a record whose second field failed to convert, the handler returning
\* nil: the first and the third field hold their values
C15_Witness ==
    \E r \in Built :
        /\ Len(heap[r].Fields) = 3
        /\ Converted(r, 2)[2] # NilErr
        /\ heap[r].Fields[1].Value = StringValue(Text)
        /\ heap[r].Fields[2].Value = NilValue
        /\ heap[r].Fields[3].Value = StringValue(Text)
        /\ \E k \in FieldReports(r, 2) : hcalls[k].ret = NilErr

(***************************************************************************)
(* What the configuration document says                                    *)
(***************************************************************************)
\* the raw FieldDefinitions of a raw RecordDefinition
RawFieldsOf(d) ==
    IF "FieldDefinitions" \in DOMAIN d THEN Range(d["FieldDefinitions"].a)
    ELSE {}

\* the string under a key of a raw definition ("": no such key)
StringAt(d, key) == IF key \in DOMAIN d THEN d[key].s ELSE ""

\* d names a reader, or one of its fields a type, that no registry holds
Unregistered(d) ==
    \/ "ReaderName" \in DOMAIN d
          /\ StringAt(d, "ReaderName") \notin RecordReaderRegistry
    \/ \E f \in RawFieldsOf(d) :
          /\ "TypeName" \in DOMAIN f
          /\ StringAt(f, "TypeName") \notin FieldTypeRegistry

\* a Date field without FieldType or without its Format
DateWithoutFormat(f) ==
    /\ StringAt(f, "TypeName") = "Date"
    /\ \/ "FieldType" \notin DOMAIN f
       \/ "Format" \notin DOMAIN f["FieldType"].o

\* d lacks a required key
RequiredMissing(d) ==
    \/ {"Name", "ReaderName", "RecordReader"} \ DOMAIN d # {}
    \/ \E f \in RawFieldsOf(d) :
          \/ {"Name", "TypeName"} \ DOMAIN f # {}
          \/ DateWithoutFormat(f)

\* the configuration of d's reader is one its factory accepts
ReaderConfigValid(d) ==
    RecordReaderUnmarshalFunc(StringAt(d, "ReaderName"), d["RecordReader"])[2]
        = NilErr

Returned == npc = "done"

Failed == Returned /\ cfgErr \notin {NilErr, Running}

(***************************************************************************)
(* C16: a configuration naming a ReaderName or a field TypeName that is    *)
(* in no registry makes NewParser return a non-nil error; the Parser is    *)
(* never completed, no line is scanned and the ErrorHandler is not called. *)
(***************************************************************************)
C16_UnregisteredNameFailsNewParser ==
    (\E d \in Range(RawDefs) : Unregistered(d)) =>
        /\ Returned => Failed
        /\ npc # "callbacks"
        /\ parser.ErrorHandler = "nil"
        /\ input = <<>>
        /\ hcalls = <<>>

\* the second field of the second definition names an unknown type
C16_Witness ==
    /\ Failed
    /\ decIdx = 2
    /\ cfgErr.msg = "Error getting field type unmarshal function"
    /\ Len(RawDefs[2]["FieldDefinitions"].a) = 2
    /\ ~Unregistered(RawDefs[1])

(***************************************************************************)
(* C17: NewParser fails whenever a required key is missing (Name,          *)
(* ReaderName, RecordReader of a record definition; Name, TypeName of a    *)
(* field definition; Format of a Date) and no line is read; a document     *)
(* that lacks only MatchExpression, ParentRecordName, FieldDefinitions or  *)
(* the configuration of a Number is decoded without error.                 *)
(***************************************************************************)
C17_RequiredKeysAreRequired ==
    Returned =>
        /\ (\E d \in Range(RawDefs) : RequiredMissing(d)) =>
              Failed /\ input = <<>>
        /\ (\A d \in Range(RawDefs) :
                /\ ~RequiredMissing(d)
                /\ ~Unregistered(d)
                /\ ReaderConfigValid(d)) => cfgErr = NilErr

\* a definition without FieldDefinitions was decoded, the next one lacks
\* a required key
C17_Witness ==
    /\ Failed
    /\ decIdx = 2
    /\ cfgErr.kind = "MissingFieldError"
    /\ "FieldDefinitions" \notin DOMAIN RawDefs[1]
    /\ ~RequiredMissing(RawDefs[1])

(***************************************************************************)
(* C18: a configuration that does not provide SplitOnRecordName is         *)
(* rejected when the Parser is created.                                    *)
(***************************************************************************)
C18_MissingSplitIsRejected ==
    (Returned /\ "SplitOnRecordName" \notin DOMAIN config) => Failed

(***************************************************************************)
(* What the line and the coordinates say                                   *)
(***************************************************************************)
\* the coordinates that reach past the end of the line
PastEnd == {i \in 1..Len(reader.Coordinates) :
               reader.Coordinates[i].End > lineData.len}

\* an offset, brought back to the end of the line if it lies beyond
Clip(n) == IF n > lineData.len THEN lineData.len ELSE n

\* the bytes of the line that lie in [Start, End)
RangeOf(i) ==
    SubSeq(Bytes(lineData), Clip(reader.Coordinates[i].Start) + 1,
           Clip(reader.Coordinates[i].End))

(***************************************************************************)
(* C19: when a coordinate reaches past the end of the line, Read returns   *)
(* an error: it does not crash, and it returns no value holding bytes that *)
(* are not part of the line.                                               *)
(***************************************************************************)
C19_RangePastEndIsAnError ==
    PastEnd # {} =>
        /\ rpc # "panic"
        /\ rpc = "return" => readErr # NilErr
        /\ \A i \in 1..Len(values) : Len(values[i]) <= Len(RangeOf(i))

(***************************************************************************)
(* C20: for a line at least as long as every End, Read returns without     *)
(* error one value per coordinate, in coordinate order, value i being the  *)
(* bytes [Start_i, End_i) of the line; (0,3),(3,13) on "033ACCTNUM001"     *)
(* give "033" and "ACCTNUM001".                                            *)
(***************************************************************************)
C20_ValuesAreTheRanges ==
    PastEnd = {} =>
        /\ rpc # "panic"
        /\ Len(values) = Len(reader.Coordinates)
        /\ \A i \in 1..Len(values) : i < coordIdx => values[i] = RangeOf(i)
        /\ rpc = "return" =>
              /\ readErr = NilErr
              /\ coordIdx = Len(values) + 1
              /\ (/\ Bytes(lineData) = Sample
                  /\ reader.Coordinates = <<Coordinate(0, 3), Coordinate(3, 13)>>)
                    => values = <<SubSeq(Sample, 1, 3), SubSeq(Sample, 4, 13)>>

C20_Witness ==
    /\ rpc = "return"
    /\ Bytes(lineData) = Sample
    /\ reader.Coordinates = <<Coordinate(0, 3), Coordinate(3, 13)>>
    /\ values = <<(<<"0", "3", "3">>),
                  (<<"A", "C", "C", "T", "N", "U", "M", "0", "0", "1">>)>>

(***************************************************************************)
(* The Number field type                                                   *)
(***************************************************************************)
\* the places the configuration asks for, 0 when it says nothing
PlacesOf(cfg) ==
    IF cfg.t = "object" /\ "ConvertToDecimalPlaces" \in DOMAIN cfg.o
    THEN cfg.o["ConvertToDecimalPlaces"].n
    ELSE 0

\* data without its sign
Unsigned(data) ==
    IF data # <<>> /\ data[1] \in {"+", "-"} THEN Tail(data) ELSE data

\* data reads as a decimal number: digits with at most one point among
\* them, after an optional sign
IsDecimal(data) ==
    LET body == Unsigned(data)
    IN /\ \E i \in 1..Len(body) : IsDigit(body[i])
       /\ \A i \in 1..Len(body) : IsDigit(body[i]) \/ body[i] = "."
       /\ \A i, j \in 1..Len(body) : body[i] = "." /\ body[j] = "." => i = j

\* how many digits follow the point
FractionDigits(data) ==
    Cardinality({i \in 1..Len(data) :
                    \E j \in 1..Len(data) : j < i /\ data[j] = "."})

\* the digits of data read as one integer, with the sign of data
Unpointed(data) ==
    LET n == ParseDigits(SelectSeq(data, IsDigit))
    IN IF data[1] = "-" THEN -n ELSE n

\* the float v times 10^places is what data reads as
ScaledBy(v, places, data) ==
    LET up   == IF places >= 0 THEN Pow10(places) ELSE 1
        down == IF places >= 0 THEN 1 ELSE Pow10(-places)
    IN v.num * up * Pow10(FractionDigits(data)) = Unpointed(data) * v.den * down

\* C21: the Number conversion reads the data as a floating-point number and
\* divides it by 10^ConvertToDecimalPlaces (0 when there is no
\* configuration): "12345" at 2 places is 123.45, "123" without places is
\* 123; data that is not a number gives an error and no value.
C21_NumberIsScaledByPlaces ==
    numPc = "done" =>
        /\ IsDecimal(numData) <=> numOut[2] = NilErr
        /\ numOut[2] # NilErr => numOut[1] = NilValue
        /\ numOut[2] = NilErr =>
              /\ numOut[1].t = "float64"
              /\ ScaledBy(numOut[1], PlacesOf(numCfg), numData)
        /\ numData = <<"1", "2", "3", "4", "5">> /\ PlacesOf(numCfg) = 2
              => numOut[1] = FloatValue(2469, 20)
        /\ numData = <<"1", "2", "3">> /\ numCfg = JAbsent
              => numOut[1] = FloatValue(123, 1)

C21_Witness ==
    /\ numPc = "done"
    /\ numData = <<"1", "2", "3", "4", "5">>
    /\ PlacesOf(numCfg) = 2
    /\ numOut = <<FloatValue(2469, 20), NilErr>>

(***************************************************************************)
(* The input source                                                        *)
(***************************************************************************)
\* Parse returned at the end of the input
EndedAtEndOfInput ==
    pc = "done" /\ hcalls # <<>> /\ Last(hcalls).at = "final"

\* Parse returned because the handler returned an error for a line
EndedByHandler ==
    /\ pc = "done"
    /\ hcalls # <<>>
    /\ Last(hcalls).at # "final"
    /\ Last(hcalls).ret # NilErr
    /\ result = Last(hcalls).ret

\* Parse returned the RecordProcessor's error at a split boundary
EndedByProcessor ==
    /\ pc = "done"
    /\ calls # <<>>
    /\ Last(calls).ret # NilErr
    /\ result = Last(calls).ret
    /\ (hcalls = <<>> \/ Last(hcalls).at # "final")

\* C22: the source given to Parse is closed exactly once on every exit path
\* (end of input, abort by the ErrorHandler, abort by a RecordProcessor
\* error), and not before Parse returns.
C22_SourceClosedOnceOnExit ==
    /\ pc = "done" => closes = 1
    /\ pc # "done" => closes = 0

\* Parse was left through the RecordProcessor's error, source closed
C22_Witness ==
    /\ EndedByProcessor
    /\ ~EndedAtEndOfInput
    /\ lineNum > 1
    /\ closes = 1

\* C23: ParseFile on a path that cannot be opened returns the error of the
\* open itself: the ErrorHandler is not consulted, the RecordProcessor is
\* never invoked and no line is scanned.
C23_OpenFailureIsReturnedDirectly ==
    path = "missing" =>
        /\ pc \in {"open", "done"}
        /\ pc = "done" => result = OpenErr
        /\ hcalls = <<>>
        /\ calls = <<>>
        /\ lineNum = 0 /\ input = <<>>

\* ParseFile returned the open error although the handler lets errors pass
C23_Witness ==
    /\ path = "missing"
    /\ handler = "custom"
    /\ pc = "done"
    /\ result = OpenErr

(***************************************************************************)
(* lastRecords, isWithinSplit and the joins                                *)
(***************************************************************************)
\* the processing of the current line ends without abort
LineDone == pc = "attach" /\ pc' = "scan"

\* C27: after every recognised line processed without abort,
\* lastRecords[type name] is the record built from that line, whatever its
\* role and even if its parent was missing and the handler let that pass;
\* the entries of the other types are not changed by the line.
C27_LastRecordsFollowsEveryLine ==
    [][/\ LineDone =>
            /\ heap[rec].Name = recDef.Name
            /\ origin[rec] = lineNum
            /\ lastRecords'[recDef.Name] = rec
       /\ \A n \in DOMAIN lastRecords :
            lastRecords'[n] # lastRecords[n] =>
                /\ pc \notin {"scan", "done"}
                /\ n = recDef.Name
                /\ lastRecords'[n] = rec
                /\ origin[rec] = lineNum]_vars

\* a line whose parent was missing has been let pass by the handler: its
\* record is the last of its type, the split record's entry is as it was
C27_Witness ==
    /\ pc = "scan"
    /\ hcalls # <<>>
    /\ Last(hcalls).at = "parent" /\ Last(hcalls).ret = NilErr
    /\ Last(hcalls).line = lineNum
    /\ lastRecords[TypeOf(lineNum)] = Len(heap)
    /\ origin[Len(heap)] = lineNum
    /\ lineNum > 1
    /\ \E n \in DOMAIN lastRecords :
          lastRecords[n] # 0 /\ origin[lastRecords[n]] < lineNum

\* the current line sets the flag of its record: as the split record, or
\* under a parent that is within the split
FlagSetHere(r) ==
    /\ r = rec
    /\ origin[r] = lineNum
    /\ \/ pc = "setsplit" /\ recDef.Name = SplitName
       \/ /\ pc = "attach"
          /\ Lookup(recDef.ParentRecordName) # 0
          /\ heap[Lookup(recDef.ParentRecordName)].isWithinSplit

\* C28: isWithinSplit, once true, never becomes false; it is set only
\* while the record's own line is processed (the record is of the split
\* type, or its resolved parent is within the split) and no later line
\* changes it.
C28_WithinSplitIsSetOnceOnOwnLine ==
    [][/\ Len(heap') >= Len(heap)
       /\ \A r \in 1..Len(heap') :
            IF r > Len(heap) THEN ~heap'[r].isWithinSplit
            ELSE /\ heap[r].isWithinSplit => heap'[r].isWithinSplit
                 /\ heap'[r].isWithinSplit # heap[r].isWithinSplit
                       => FlagSetHere(r)]_vars

\* a record that came within the split through its parent, still flagged
\* two lines later
C28_Witness ==
    \E r \in 1..Len(heap) :
        /\ heap[r].isWithinSplit
        /\ heap[r].Name # SplitName
        /\ origin[r] + 2 <= lineNum
        /\ pc = "scan"

\* the records of h that have r in their Children
Holders(h, r) ==
    {q \in 1..Len(h) : r \in Range(h[q].Children)}

\* C29: a recognised line whose parent type has a most recent record P: if
\* P is within the split the new record is appended to P.Children, becomes
\* within the split and stores no Parent; otherwise it stores Parent = P
\* and joins no Children list.  So no record has a Parent and is in a
\* Children list, every member of a Children list is within the split and
\* every Parent is outside the split.
C29_JoinFollowsWithinSplit ==
    /\ [](\A r \in 1..Len(heap) :
            /\ ~(heap[r].Parent # 0 /\ Holders(heap, r) # {})
            /\ \A q \in Holders(heap, r) : heap[r].isWithinSplit
            /\ heap[r].Parent # 0 => ~heap[heap[r].Parent].isWithinSplit)
    /\ [][LineDone /\ Lookup(recDef.ParentRecordName) # 0 =>
            LET P == Lookup(recDef.ParentRecordName)
            IN IF heap[P].isWithinSplit
               THEN /\ heap'[P].Children = Append(heap[P].Children, rec)
                    /\ heap'[rec].isWithinSplit
                    /\ heap'[rec].Parent = 0
               ELSE /\ heap'[rec].Parent = P
                    /\ Holders(heap', rec) = {}]_vars

\* both joins have happened: a record above the split refers to its parent
\* and the split record has a child
C29_Witness ==
    /\ pc = "scan"
    /\ \E r \in 1..Len(heap) :
          heap[r].Parent # 0 /\ heap[r].Parent # r /\ Holders(heap, r) = {}
    /\ \E r, q \in 1..Len(heap) :
          r # q /\ q \in Holders(heap, r) /\ heap[r].Parent = 0

\* the records of h reachable from the records S through Children
RECURSIVE Reach(_, _)
Reach(h, S) ==
    LET T == S \cup UNION {Range(h[r].Children) : r \in S}
    IN IF T = S THEN S ELSE Reach(h, T)

Descendants(h, r) == Reach(h, Range(h[r].Children))

\* the places of Children lists of h that hold r
Memberships(h, r) ==
    {<<q, i>> \in (1..Len(h)) \X (1..Len(h)) :
        i <= Len(h[q].Children) /\ h[q].Children[i] = r}

\* the records reachable from root form a tree rooted at it
IsTree(h, root) ==
    \A r \in Reach(h, {root}) :
        /\ Cardinality(Memberships(h, r)) <= 1
        /\ r \notin Descendants(h, r)

\* C30: for every schema, one whose record type names itself as its parent
\* included, the records reachable through Children from a record handed
\* to the RecordProcessor form a tree rooted at it: each record is in at
\* most one Children list, at most once, and none is its own descendant.
C30_UnitsAreTrees ==
    \A k \in 1..Len(calls) :
        calls[k].rec # 0 => IsTree(calls[k].heap, calls[k].rec)

(***************************************************************************)
(* FindRecord                                                              *)
(***************************************************************************)
\* the records of the subtree of r, depth first, a record before its
\* children
RECURSIVE PreOrder(_, _)
PreOrder(h, r) ==
    LET sub == [i \in 1..Len(h[r].Children) |-> PreOrder(h, h[r].Children[i])]
        Flat[i \in 0..Len(sub)] == IF i = 0 THEN <<>> ELSE Flat[i - 1] \o sub[i]
    IN <<r>> \o Flat[Len(sub)]

\* record r is named name and has every field of matches
Qualifies(h, r, name, matches) ==
    /\ h[r].Name = name
    /\ \A i \in 1..Len(matches) : matches[i] \in Range(h[r].Fields)

\* the qualifying records of the tree, in pre-order
Candidates ==
    SelectSeq(PreOrder(ftree, 1), LAMBDA r : Qualifies(ftree, r, fname, fmatches))

\* C26: FindRecord returns a record of the subtree (the record itself
\* included) with the given Name whose fields equal every field of matches
\* whenever there is one, the first in depth-first pre-order, and nil only
\* when no record of the subtree qualifies.
C26_FindRecordFindsFirstCandidate ==
    fpc = "done" =>
        found = IF Candidates = <<>> THEN 0 ELSE Head(Candidates)

(***************************************************************************)
(* The channel version                                                     *)
(***************************************************************************)
\* C24: Process / ProcessFile: once the processor has been called with a
\* non-nil error the callback is never called again, with a record or with
\* another error; a file that cannot be opened gives exactly one callback,
\* which carries the error.
C24_ErrorCallbackIsTheLast ==
    /\ \A k \in 1..Len(pcalls) :
          /\ pcalls[k].err # NilErr => k = Len(pcalls) /\ pcalls[k].rec = 0
          /\ pcalls[k].err = NilErr => pcalls[k].rec # 0
    /\ (pcalls # <<>> /\ Last(pcalls).err # NilErr) => cpc \in {"select", "done"}
    /\ (cpath = "missing" /\ cpc = "done") =>
          pcalls = <<[rec |-> 0, err |-> OpenErr, heap |-> <<>>]>>
    /\ (cpath = "missing" /\ cpc \notin {"parsefile", "sendopenerr"}) =>
          cpc \in {"open", "done"} /\ gpc = "none"

\* Process has ended after a record and then an error
C24_Witness ==
    /\ cpc = "done"
    /\ Len(pcalls) = 2
    /\ pcalls[1].rec # 0
    /\ pcalls[2].err # NilErr
    /\ gpc = "exited"

\* the top-level records built so far
TopLevel ==
    {r \in 1..Len(cheap) :
        \E d \in 1..Len(ChanDefs) :
            ChanDefs[d].Name = cheap[r].Name /\ ChanDefs[d].ParentRecordName = ""}

\* C25: on every exit path of the parse goroutine both channels are closed,
\* and only after everything it sent has been received; so a consumer that
\* selects on both channels and stops at the first nil has received every
\* record produced before it stops, and it always terminates.
C25_ExitClosesAndConsumerEnds ==
    /\ gpc \in {"exited", "crashed"} => errClosed /\ recClosed
    /\ (errClosed \/ recClosed) =>
          gpc \in {"closeRec", "closeSrc", "exited", "crashed"}
    /\ (cpc = "done" /\ cpath = "present" /\ pending = NilErr) =>
          TopLevel = {pcalls[k].rec : k \in 1..Len(pcalls)}
    /\ cpc # "done" => gpc # "crashed"

\* the goroutine has gone through its deferred calls and crashed while
\* Process was still in its loop
C25_CrashedUnderConsumer ==
    /\ gpc = "crashed"
    /\ errClosed /\ recClosed
    /\ cpc = "select"
    /\ cinput = <<>>

(***************************************************************************)
(* Fields and errors of a line                                             *)
(***************************************************************************)
\* the handler calls that report an error on line n
ErrorsOn(n) ==
    {k \in 1..Len(hcalls) : hcalls[k].line = n /\ hcalls[k].arg # NilErr}

\* the field loop over the record of the current line is over
FieldsDone == rec # 0 /\ pc \in {"store", "split", "setsplit", "attach"}

\* r has one field per FieldDefinition of its type, in their order, field i
\* with the name and type name of definition i and the conversion of value i
Complete(r) ==
    /\ Len(heap[r].Fields) = Len(DefOf(r).FieldDefinitions)
    /\ \A i \in 1..Len(heap[r].Fields) :
          /\ i <= Len(ValuesOf(r))
          /\ Converted(r, i)[2] = NilErr
          /\ heap[r].Fields[i] = Field(FieldDefOf(r, i).Name,
                                       FieldDefOf(r, i).TypeName,
                                       Converted(r, i)[1])

\* the line of r has a value for every FieldDefinition, each converts
Convertible(r) ==
    /\ Read(DefOf(r), input[origin[r]])[2] = NilErr
    /\ Len(ValuesOf(r)) >= Len(DefOf(r).FieldDefinitions)
    /\ \A i \in 1..Len(DefOf(r).FieldDefinitions) : Converted(r, i)[2] = NilErr

\* C31: a record built from a line processed without error has exactly one
\* Field per FieldDefinition of its type, in FieldDefinition order, field i
\* with the name and type name of definition i and the conversion of the
\* i-th value of the line; values beyond the FieldDefinitions are ignored
\* and cause no error.  The fields stay as they are afterwards.
C31_FieldsFollowTheDefinitions ==
    /\ [](FieldsDone =>
            /\ ErrorsOn(lineNum) = {} => Complete(rec)
            /\ Convertible(rec) =>
                  \A k \in ErrorsOn(lineNum) : hcalls[k].at = "match")
    /\ [][\A r \in 1..Len(heap) :
             r # rec => heap'[r].Fields = heap[r].Fields]_vars

\* a Header with its three fields converted, and a Shipment line with one
\* value more than Shipment has FieldDefinitions, processed without error
C31_Witness ==
    /\ FieldsDone
    /\ pc = "attach"
    /\ heap[rec].Name = "Shipment"
    /\ Len(ValuesOf(rec)) > Len(heap[rec].Fields)
    /\ ErrorsOn(lineNum) = {}
    /\ Complete(rec)
    /\ \E r \in 1..Len(heap) :
          heap[r].Name = "Header" /\ Len(heap[r].Fields) = 3 /\ Complete(r)

\* C32: every RecordParseError reported by Parse, for a reader failure, for
\* too few values or for a missing parent, identifies the record type name
\* and the line number at which it arose.
C32_RecordErrorsNameTypeAndLine ==
    \A k \in 1..Len(hcalls) :
        hcalls[k].arg.kind = "RecordParseError" =>
            /\ hcalls[k].at \in {"read", "field", "parent"}
            /\ hcalls[k].arg.RecordName = TypeOf(hcalls[k].line)
            /\ hcalls[k].arg.line = hcalls[k].line

(***************************************************************************)
(* Invalid MatchExpressions                                                *)
(***************************************************************************)
\* the MatchExpression of rd is not a valid regular expression
Invalid(rd) == rd.MatchExpression = "("

\* C33: when a definition's MatchExpression is not a valid regular
\* expression, Parse reports a ConfigurationError through the ErrorHandler
\* when the definition is tested against a line, from the first time on;
\* under the default handler Parse returns it without building a record
\* from that line; if the handler returns nil the definition is taken as
\* not matching and the next definition is tried.
C33_InvalidExpressionIsReported ==
    [][(pc = "match" /\ Invalid(recDef)) =>
          /\ Len(hcalls') = Len(hcalls) + 1
          /\ Last(hcalls').at = "match"
          /\ Last(hcalls').line = lineNum
          /\ Last(hcalls').arg = ConfigurationError(RegexpErr)
          /\ UNCHANGED <<heap, rec, calls, lastRecords, splitRec>>
          /\ \A r \in 1..Len(heap) : origin[r] # lineNum
          /\ handler = "default" => Last(hcalls').ret = RegexpErr
          /\ IF Last(hcalls').ret # NilErr
             THEN pc' = "done" /\ result' = Last(hcalls').ret
             ELSE IF defIdx < Len(Defs)
             THEN pc' = "match" /\ defIdx' = defIdx + 1
             ELSE pc' = "scan"]_vars

\* the handler let the invalid first definition pass and the second
\* definition gave the record of the line
C33_Witness ==
    /\ schema = BrokenSchema
    /\ hcalls # <<>>
    /\ hcalls[1].arg = RegexpErr /\ hcalls[1].ret = NilErr
    /\ Len(heap) >= 1
    /\ origin[1] = 1
    /\ heap[1].Name = "Header"
    /\ pc = "scan"

(***************************************************************************)
(* Failure of the source                                                   *)
(***************************************************************************)
\* C34: if reading the source fails before the end of the input (a read
\* error, a line too long for the scanner), Parse ends with an error
\* outcome: it does not return nil and does not hand the unit in flight to
\* the RecordProcessor as if the input had ended normally.
C34_SourceFailureIsAnError ==
    [][(scanErr' /\ ~scanErr) =>
          /\ pc' = "done"
          /\ result' # NilErr
          /\ calls' = calls]_vars

(***************************************************************************)
(* C35: after NewParser succeeds, every RecordDefinition has a RecordReader*)
(* and every FieldDefinition a FieldType: an error of the registry's       *)
(* factory decoding the RecordReader or the FieldType configuration makes  *)
(* NewParser fail, it is not dropped.                                      *)
(***************************************************************************)
C35_FactoryErrorFailsNewParser ==
    (npc = "done" /\ cfgErr = NilErr) =>
        \A i \in 1..Len(parser.RecordDefinitions) :
            LET rd == parser.RecordDefinitions[i]
            IN /\ rd.RecordReader # NilReader
               /\ RecordReaderUnmarshalFunc(
                      RawDefs[i].ReaderName.s, RawDefs[i].RecordReader)[2] = NilErr
               /\ \A j \in 1..Len(rd.FieldDefinitions) :
                      rd.FieldDefinitions[j].FieldType # NilFieldType

(***************************************************************************)
(* C36: no record at or below the split level is silently lost.  When      *)
(* Parse has gone through the whole input with a handler and a processor   *)
(* that return nil, every recognised line whose type is the split type or  *)
(* a (transitive) child type of it either has its record in a unit handed  *)
(* to the RecordProcessor after the line was processed, or had an error    *)
(* reported to the ErrorHandler.                                           *)
(***************************************************************************)
RanToTheEnd ==
    /\ pc = "done"
    /\ hcalls # <<>> /\ Last(hcalls).at = "final"
    /\ \A k \in 1..Len(hcalls) : hcalls[k].ret = NilErr
    /\ \A k \in 1..Len(calls) : calls[k].ret = NilErr

\* the calls of the RecordProcessor made once line n has been processed
CallsAfter(n) ==
    {k \in 1..Len(calls) : calls[k].line > n \/ k = Len(calls)}

HandedOver(n) ==
    \E r \in 1..Len(heap) :
        /\ origin[r] = n
        /\ \E k \in CallsAfter(n) :
              calls[k].rec # 0 /\ r \in Unit(calls[k].heap, calls[k].rec)

C36_NoRecordSilentlyLost ==
    RanToTheEnd =>
        \A n \in 1..Len(input) :
            TypeOf(n) \in WithinTypes => HandedOver(n) \/ ErrorsOn(n) # {}

(***************************************************************************)
(* C37: the consumer receives the top-level records in the order of their  *)
(* lines, none skipped, and the goroutine is never more than one complete, *)
(* undelivered record ahead: it stays in its send until the consumer       *)
(* receives.                                                               *)
(***************************************************************************)
\* the records the consumer has received so far
Received ==
    LET had == [k \in 1..Len(pcalls) |-> pcalls[k].rec]
        all == IF cpc = "call" THEN Append(had, recvd.rec) ELSE had
    IN SelectSeq(all, LAMBDA r : r # 0)

\* a top-level record is complete when the next one has been read or the
\* input has ended
Completed ==
    {r \in TopLevel :
        \/ \E q \in TopLevel : q > r
        \/ gpc = "sendfinal"}

C37_InOrderOneAhead ==
    /\ [](/\ \A i \in 1..Len(Received) :
                /\ Received[i] \in TopLevel
                /\ Cardinality({q \in TopLevel : q <= Received[i]}) = i
          /\ Cardinality(Completed \ Range(Received)) <= 1)
    /\ [][(gpc \in {"sendrec", "sendfinal"} /\ gpc' # gpc) =>
             /\ cpc = "select" /\ cpc' = "call"
             /\ recvd'.rec = topRec
             /\ cheap' = cheap]_vars

C37_Witness ==
    /\ gpc = "sendfinal"
    /\ Len(pcalls) = 2
    /\ pcalls[1].rec = 1 /\ pcalls[2].rec = 2
    /\ topRec = 3
    /\ Received = <<1, 2>>

(***************************************************************************)
(* C38: once a top-level record has been sent on the record channel, the   *)
(* goroutine never again modifies it or any of its descendants: what the   *)
(* consumer received stays as it was when it was received.                 *)
(***************************************************************************)
\* the receptions of records so far: the pointer and the heap at the time
Receptions ==
    {pcalls[k] : k \in {j \in 1..Len(pcalls) : pcalls[j].rec # 0}}
    \cup (IF cpc = "call" /\ recvd.rec # 0 THEN {recvd} ELSE {})

C38_SentRecordIsLeftAlone ==
    \A c \in Receptions :
        \A r \in ReachFrom(cheap, {c.rec}) :
            /\ r \in ReachFrom(c.heap, {c.rec})
            /\ cheap[r] = c.heap[r]

(***************************************************************************)
(* C39: on an input in which no line gives a top-level record, the empty   *)
(* input included, the goroutine finishes normally: it does not panic, and *)
(* once it is over both channels are closed and it has exited.             *)
(***************************************************************************)
C39_NoTopLevelEndsNormally ==
    TopLevel = {} =>
        /\ ~panicking
        /\ gpc # "crashed"
        /\ gpc \in {"closeSrc", "exited"} => errClosed /\ recClosed

(***************************************************************************)
(* C40: ParseFile on a file that cannot be opened returns to its caller    *)
(* with channels the caller can use, the open error can be received on the *)
(* error channel and the channels are then closed: the call never blocks   *)
(* forever.  Checked as: the caller is never left in the send of the open  *)
(* error with no step of anyone able to take it on.                        *)
(***************************************************************************)
C40_OpenFailureIsReceivable ==
    (cpath = "missing" /\ cpc = "sendopenerr") => ENABLED ChanNext

====
